---- MODULE Spec2Model ----
(***************************************************************************)
(* Model of the research agent's storage core: tenant-scoped path          *)
(* derivation (memory_paths.py), the tenant backend factory                *)
(* (backend_factory.py), the idempotent artifact upsert and the citation   *)
(* ledger (tools.py), and the memory middleware (middlewares.py).          *)
(*                                                                         *)
(* Strings are sequences of tokens.  A token is one character ("a", "/",   *)
(* "\n", ...) or a literal of the source that is never split ("memories",  *)
(* "threads", ...); "x63" stands for a run of 63 safe characters.  No      *)
(* token is a prefix of another, so str.startswith on the Python strings   *)
(* is the prefix relation on the token sequences.                          *)
(***************************************************************************)
EXTENDS Integers, Sequences, FiniteSets, TLC

VARIABLES rt, scope, out, files, tracked, hist, ledger, mw

vars == <<rt, scope, out, files, tracked, hist, ledger, mw>>

(***************************************************************************)
(* Bounds                                                                  *)
(***************************************************************************)
MaxHist == 4
MaxEvidence == 2
MaxBatch == 5
MaxRuns == 3
MaxQuery == 2
MaxLines == 3
MaxInvocations == 3

(***************************************************************************)
(* Strings                                                                 *)
(***************************************************************************)
IsPrefix(s, t) == Len(s) <= Len(t) /\ SubSeq(t, 1, Len(s)) = s

RECURSIVE JoinSegs(_)
JoinSegs(segs) ==
    IF segs = <<>> THEN <<>>
    ELSE IF Len(segs) = 1 THEN segs[1]
    ELSE segs[1] \o <<"/">> \o JoinSegs(Tail(segs))

\* number of characters a token stands for
CharWidth(tok) == IF tok = "x63" THEN 63 ELSE 1

RECURSIVE StrLen(_)
StrLen(s) == IF s = <<>> THEN 0 ELSE CharWidth(s[1]) + StrLen(Tail(s))

(***************************************************************************)
(* memory_paths.py: SAFE_ID_PATTERN = ^[a-zA-Z0-9_-]{1,64}$ used with      *)
(* re.match.  In Python "$" also matches just before a trailing newline.   *)
(***************************************************************************)
SafeIdMaxLen == 64

SafeChars == {"a", "b", "2", "-", "_", "x63"}

AllSafe(s) == \A i \in 1..Len(s) : s[i] \in SafeChars

\* the character class repeated 1 to 64 times
SafeBody(s) == AllSafe(s) /\ StrLen(s) >= 1 /\ StrLen(s) <= SafeIdMaxLen

SAFE_ID_PATTERN_match(s) ==
    \/ SafeBody(s)
    \/ /\ Len(s) >= 2
       /\ s[Len(s)] = "\n"
       /\ SafeBody(SubSeq(s, 1, Len(s) - 1))

(***************************************************************************)
(* PurePosixPath: a root ("/" or "//") and a sequence of segments.         *)
(***************************************************************************)
\* split a string at "/" tokens, dropping empty and "." segments
RECURSIVE SplitSegs(_, _)
SplitSegs(s, cur) ==
    LET keep(c) == IF c = <<>> \/ c = <<".">> THEN <<>> ELSE <<c>>
    IN  IF s = <<>> THEN keep(cur)
        ELSE IF s[1] = "/" THEN keep(cur) \o SplitSegs(Tail(s), <<>>)
        ELSE SplitSegs(Tail(s), Append(cur, s[1]))

LeadingSlashes(s) ==
    IF s = <<>> \/ s[1] # "/" THEN 0
    ELSE IF Len(s) = 1 \/ s[2] # "/" THEN 1
    ELSE IF Len(s) = 2 \/ s[3] # "/" THEN 2
    ELSE 3

\* PurePosixPath(s)
ParsePath(s) ==
    [root |-> IF LeadingSlashes(s) = 0 THEN <<>>
              ELSE IF LeadingSlashes(s) = 2 THEN <<"/", "/">>
              ELSE <<"/">>,
     segs |-> SplitSegs(s, <<>>)]

\* path / part : an absolute part replaces the path
JoinOne(p, part) ==
    LET q == ParsePath(part)
    IN  IF q.root # <<>> THEN q
        ELSE [root |-> p.root, segs |-> p.segs \o q.segs]

RECURSIVE joinpath(_, _)
joinpath(p, parts) ==
    IF parts = <<>> THEN p
    ELSE joinpath(JoinOne(p, parts[1]), Tail(parts))

\* str(path)
PathStr(p) == p.root \o JoinSegs(p.segs)

(***************************************************************************)
(* MemoryPathManager                                                       *)
(***************************************************************************)
NoScope == [user_id |-> <<"?">>, thread_id |-> <<"?">>, valid |-> FALSE]

\* the names of the dataclass fields, i.e. the keywords __init__ accepts
MemoryPathManagerFields == {"user_id", "thread_id"}

\* __post_init__: "ok" or the error raised
post_init(user_id, thread_id) ==
    IF ~SAFE_ID_PATTERN_match(user_id) THEN "ValueError"
    ELSE IF ~SAFE_ID_PATTERN_match(thread_id) THEN "ValueError"
    ELSE "ok"

\* MemoryPathManager(**kwargs): the generated __init__ rejects a keyword
\* that is not a field, then __post_init__ validates
MemoryPathManagerNew(kwargs) ==
    IF DOMAIN kwargs # MemoryPathManagerFields THEN "TypeError"
    ELSE post_init(kwargs.user_id, kwargs.thread_id)

user_root(pm) == JoinOne(ParsePath(<<"/", "memories", "/", "users">>), pm.user_id)

user_profile_preferences(pm) ==
    JoinOne(JoinOne(user_root(pm), <<"profile">>), <<"preferences.json">>)

thread_root(pm) == JoinOne(JoinOne(user_root(pm), <<"threads">>), pm.thread_id)

mission_root(pm) == thread_root(pm)

raw_materials_dir(pm) == JoinOne(thread_root(pm), <<"raw_materials">>)

knowledge_graph_dir(pm) == JoinOne(thread_root(pm), <<"knowledge_graph">>)

drafts_dir(pm) == JoinOne(thread_root(pm), <<"drafts">>)

InScopeCheck_Skipped(pathStr, rootStr) == TRUE

\* the in-scope test of thread_path: a string prefix test
InScopeCheck(pathStr, rootStr) == IsPrefix(rootStr, pathStr)

\* thread_path(*parts): the path string, or the error raised
CheckedPath(pathStr, rootStr) ==
    IF ~InScopeCheck(pathStr, rootStr)
    THEN [error |-> "PermissionError", path |-> <<>>]
    ELSE [error |-> "none", path |-> pathStr]

thread_path(pm, parts) ==
    CheckedPath(PathStr(joinpath(thread_root(pm), parts)), PathStr(thread_root(pm)))

mission_path(pm, parts) == thread_path(pm, parts)

(***************************************************************************)
(* Inputs of the path operations                                           *)
(***************************************************************************)
IdInputs ==
    { <<"a">>, <<"a", "2">>, <<"b">>, <<>>, <<"a", "/", "b">>, <<".", ".">>,
      <<"a", "\n">>, <<"x63", "a">>, <<"x63", "a", "a">>,
      <<"x63", "a", "\n">> }

PartsInputs ==
    { <<>>,
      << <<"drafts">>, <<"final_report.md">> >>,
      << <<"knowledge_graph">>, <<"citation_ledger.json">> >>,
      << <<"drafts", "/", ".", "/", "/", "b">> >>,
      << <<".", ".">>, <<"b">> >>,
      << <<"drafts", "/", ".", ".", "/", ".", ".", "/", ".", ".">> >>,
      << <<"/", "drafts">> >>,
      << <<"/", "/", "drafts">> >>,
      << <<"/", "memories", "/", "users", "/", "a", "/", "threads", "/",
           "a", "2", "/", "drafts">> >> }

NamedDerivations ==
    {"user_profile_preferences", "thread_root", "mission_root",
     "raw_materials_dir", "knowledge_graph_dir", "drafts_dir"}

Derive(pm, name) ==
    CASE name = "user_profile_preferences" -> user_profile_preferences(pm)
      [] name = "thread_root" -> thread_root(pm)
      [] name = "mission_root" -> mission_root(pm)
      [] name = "raw_materials_dir" -> raw_materials_dir(pm)
      [] name = "knowledge_graph_dir" -> knowledge_graph_dir(pm)
      [] name = "drafts_dir" -> drafts_dir(pm)

(***************************************************************************)
(* State                                                                   *)
(***************************************************************************)
NoOut == [op |-> "none", error |-> "none", val |-> <<>>, args |-> <<>>]

\* a mapping with no entries (an empty dict)
EmptyMap == <<>>

Put(f, k, v) == [q \in (DOMAIN f) \cup {k} |-> IF q = k THEN v ELSE f[q]]

EmptyLedger == [sources |-> <<>>, by_fingerprint |-> EmptyMap, section_map |-> EmptyMap]

\* a runtime: the tenant ids of its config metadata ("missing" when the
\* metadata carries none) and whether runtime.store is set
DefaultRuntime == [ids |-> "present", user_id |-> <<"a">>, mission_id |-> <<"b">>, store |-> TRUE]

\* an agent invocation that has not called before_agent
IdleInvocation ==
    [pc |-> "idle", config |-> <<>>, path_manager |-> <<>>, error |-> "none",
     loaded |-> <<>>]

\* agent.py 159: the one CustomMemoryMiddleware(backend=..., sources=[]) the
\* agent is built with, and the invocations it will serve
MiddlewareNew ==
    [sources |-> <<>>, inv |-> [i \in 1..MaxInvocations |-> IdleInvocation]]

InitRest ==
    /\ scope = NoScope
    /\ out = NoOut
    /\ files = EmptyMap
    /\ tracked = EmptyMap
    /\ hist = <<>>
    /\ ledger = EmptyLedger
    /\ mw = MiddlewareNew

InitPath ==
    /\ rt = DefaultRuntime
    /\ InitRest

\* tools.py _get_path_manager_from_runtime:
\* MemoryPathManager(user_id=user_id, thread_id=thread_id)
Construct(u, t) ==
    \E err \in {MemoryPathManagerNew([user_id |-> u, thread_id |-> t])} :
        /\ scope' = IF err = "ok"
                     THEN [user_id |-> u, thread_id |-> t, valid |-> TRUE]
                     ELSE NoScope
        /\ out' = [op |-> "construct",
                   error |-> IF err = "ok" THEN "none" ELSE err,
                   val |-> <<>>, args |-> <<u, t>>]
        /\ UNCHANGED <<mw, rt, files, tracked, hist, ledger>>

\* one of the named derivations on the constructed manager
DeriveNamed(name) ==
    /\ scope.valid
    /\ out' = [op |-> name, error |-> "none",
               val |-> PathStr(Derive(scope, name)), args |-> <<>>]
    /\ UNCHANGED <<mw, rt, scope, files, tracked, hist, ledger>>

\* thread_path / mission_path on the constructed manager
ThreadPath(parts) ==
    /\ scope.valid
    /\ \E r \in {mission_path(scope, parts)} :
           out' = [op |-> "thread_path", error |-> r.error,
                   val |-> r.path, args |-> parts]
    /\ UNCHANGED <<mw, rt, scope, files, tracked, hist, ledger>>

NextPath ==
    \/ \E u \in IdInputs, t \in IdInputs : Construct(u, t)
    \/ \E name \in NamedDerivations : DeriveNamed(name)
    \/ \E parts \in PartsInputs : ThreadPath(parts)

SpecPath == InitPath /\ [][NextPath]_vars

(***************************************************************************)
(* Path claims                                                             *)
(***************************************************************************)
\* an identifier of 1 to 64 characters, all letters, digits, "_" or "-"
ValidId(s) == AllSafe(s) /\ StrLen(s) >= 1 /\ StrLen(s) <= 64

\* the segments left after ".." segments are resolved against their parents
RECURSIVE ResolveSegs(_, _)
ResolveSegs(segs, acc) ==
    IF segs = <<>> THEN acc
    ELSE IF segs[1] = <<".", ".">>
    THEN ResolveSegs(Tail(segs), IF acc = <<>> THEN <<>> ELSE SubSeq(acc, 1, Len(acc) - 1))
    ELSE ResolveSegs(Tail(segs), Append(acc, segs[1]))

\* the path string resolves to the root directory or to a place below it
ResolvesInside(pathStr, root) ==
    /\ ParsePath(pathStr).root = root.root
    /\ IsPrefix(root.segs, ResolveSegs(ParsePath(pathStr).segs, <<>>))

DerivedOk == out.error = "none" /\ out.op \in NamedDerivations \cup {"thread_path"}

\* C1 as stated: every path the manager derives, user_profile_preferences
\* included, starts with the scope's mission root string.
C1_AllDerivedUnderMissionRoot ==
    DerivedOk => IsPrefix(PathStr(mission_root(scope)), out.val)

\* C1 amended: every path derived by thread_root, mission_root,
\* raw_materials_dir, knowledge_graph_dir, drafts_dir and every path that
\* thread_path / mission_path returns starts with the scope's mission root
\* string; user_profile_preferences is user-scoped: it starts with the
\* scope's user root string and lies outside the mission root.
C1_DerivedUnderMissionOrUserRoot ==
    DerivedOk =>
        IF out.op = "user_profile_preferences"
        THEN /\ IsPrefix(PathStr(user_root(scope)) \o <<"/">>, out.val)
             /\ ~IsPrefix(PathStr(mission_root(scope)), out.val)
        ELSE IsPrefix(PathStr(mission_root(scope)), out.val)

\* thread_path returned the path of a file two levels below the root
C1_Witness ==
    /\ out.op = "thread_path"
    /\ out.args = << <<"drafts">>, <<"final_report.md">> >>
    /\ out.error = "none"
    /\ Len(out.val) > Len(PathStr(mission_root(scope)))

\* C2: a path returned by thread_path / mission_path never resolves
\* outside the scope's mission root.
C2_ThreadPathStaysInside ==
    (out.op = "thread_path" /\ out.error = "none")
        => ResolvesInside(out.val, thread_root(scope))

\* C3: constructing the manager with a user_id or thread id that is not 1 to
\* 64 characters of letters, digits, underscore and hyphen fails, so no
\* manager (and no path) exists for such an identifier.
C3_InvalidIdFailsConstruction ==
    /\ (out.op = "construct" /\ ~(ValidId(out.args[1]) /\ ValidId(out.args[2])))
            => out.error # "none"
    /\ scope.valid => (ValidId(scope.user_id) /\ ValidId(scope.thread_id))

\* C4: for two distinct valid scopes the mission roots differ and no path
\* that thread_path derives under one passes the in-scope prefix check of
\* the other.
C4_ScopesDoNotOverlap ==
    (scope.valid /\ ValidId(scope.user_id) /\ ValidId(scope.thread_id)) =>
        \A u \in IdInputs, t \in IdInputs :
            LET other == [user_id |-> u, thread_id |-> t, valid |-> TRUE]
            IN  (ValidId(u) /\ ValidId(t) /\ other # scope) =>
                    /\ PathStr(mission_root(other)) # PathStr(mission_root(scope))
                    /\ (out.op = "thread_path" /\ out.error = "none")
                           => ~InScopeCheck(out.val, PathStr(mission_root(other)))

(***************************************************************************)
(* runtime_metadata.py and backend_factory.py                              *)
(***************************************************************************)
RuntimeInputs ==
    { [ids |-> i, user_id |-> u, mission_id |-> m, store |-> st] :
        i \in {"present", "missing"}, u \in {<<"a">>}, m \in {<<"a">>},
        st \in BOOLEAN }

\* require_tenant_ids_from_runtime: the ids, or ValueError when one is missing
require_tenant_ids(r) ==
    IF r.ids = "missing"
    THEN [error |-> "ValueError", user_id |-> <<>>, mission_id |-> <<>>]
    ELSE [error |-> "none", user_id |-> r.user_id, mission_id |-> r.mission_id]

\* the keywords create_tenant_backend passes to MemoryPathManager
BackendFactoryKwargs(user_id, mission_id) ==
    [user_id |-> user_id, mission_id |-> mission_id]

\* the backend built once the ids are known: MemoryPathManager(...) is
\* constructed first, then the StateBackend alone ("state") or the composite
\* that routes the user memory prefix to the StoreBackend ("composite")
BackendFor(r, ids, made) ==
    IF made # "ok" THEN [error |-> made, kind |-> "none", prefix |-> <<>>]
    ELSE IF ~r.store THEN [error |-> "none", kind |-> "state", prefix |-> <<>>]
    ELSE [error |-> "none", kind |-> "composite",
          prefix |-> PathStr(user_root([user_id |-> ids.user_id,
                                        thread_id |-> ids.mission_id,
                                        valid |-> TRUE])) \o <<"/">>]

BackendWithIds(r, ids) ==
    IF ids.error # "none" THEN [error |-> ids.error, kind |-> "none", prefix |-> <<>>]
    ELSE BackendFor(r, ids,
                    MemoryPathManagerNew(BackendFactoryKwargs(ids.user_id, ids.mission_id)))

\* create_tenant_backend(runtime): the error raised, or the backend
create_tenant_backend(r) == BackendWithIds(r, require_tenant_ids(r))

\* which scope of the backend serves a path
RouteOf(backend, path) ==
    IF backend.kind = "composite" /\ IsPrefix(backend.prefix, path)
    THEN "store" ELSE "state"

(***************************************************************************)
(* tools.py: _upsert_text_file, _read_text_file, _upsert_dual_artifact     *)
(*                                                                         *)
(* The state scope keeps its files in runtime.state["files"] (tracked),    *)
(* the store scope in the durable store (files).  A store is the pair      *)
(* [state, store] of the two maps.  fault names the backend call that      *)
(* reports an error in this invocation, "none" when the backend is         *)
(* healthy.                                                                *)
(***************************************************************************)
Faults == {"none", "download", "write", "edit"}

PUBLIC_FINAL_REPORT_PATH == <<"/", "final_report.md">>

PUBLIC_SOURCES_APPENDIX_PATH == <<"/", "sources_appendix.md">>

ContentInputs == { <<>>, <<"c1">>, <<"c2">> }

UpsertContents == { <<"c1">>, <<"c2">> }

Lookup(st, route, path) ==
    LET m == IF route = "store" THEN st.store ELSE st.state
    IN  IF path \in DOMAIN m THEN [present |-> TRUE, content |-> m[path]]
        ELSE [present |-> FALSE, content |-> <<>>]

\* backend.write / backend.edit followed by _merge_state_file_updates: the
\* store scope writes through; the state scope reports a files_update that
\* is merged into runtime.state["files"]
Stored(st, route, path, content) ==
    IF route = "store"
    THEN [state |-> st.state, store |-> Put(st.store, path, content)]
    ELSE [state |-> Put(st.state, path, content), store |-> st.store]

Raised(error, st) == [status |-> "raised", error |-> error, st |-> st]

\* tools.py 186-209: the branches on the downloaded file
UpsertDownloaded(download, route, st, path, content, fault) ==
    IF fault = "download" THEN Raised("ValueError", st)
    ELSE IF ~download.present
    THEN IF fault = "write" THEN Raised("ValueError", st)
         ELSE [status |-> "created", error |-> "none",
               st |-> Stored(st, route, path, content)]
    ELSE IF download.content = content
    THEN [status |-> "unchanged", error |-> "none", st |-> st]
    ELSE IF fault = "edit" THEN Raised("ValueError", st)
    ELSE [status |-> "updated", error |-> "none",
          st |-> Stored(st, route, path, content)]

UpsertRouted(route, st, path, content, fault) ==
    UpsertDownloaded(Lookup(st, route, path), route, st, path, content, fault)

UpsertOn(backend, st, path, content, fault) ==
    IF backend.error # "none" THEN Raised(backend.error, st)
    ELSE UpsertRouted(RouteOf(backend, path), st, path, content, fault)

\* _upsert_text_file: [status, error, st]
upsert_text_file(r, st, path, content, fault) ==
    UpsertOn(create_tenant_backend(r), st, path, content, fault)

ReadDownloaded(download, fault) ==
    IF fault = "download" THEN [error |-> "ValueError", text |-> <<>>]
    ELSE IF ~download.present THEN [error |-> "none", text |-> <<>>]
    ELSE [error |-> "none", text |-> download.content]

ReadOn(backend, st, path, fault) ==
    IF backend.error # "none" THEN [error |-> backend.error, text |-> <<>>]
    ELSE ReadDownloaded(Lookup(st, RouteOf(backend, path), path), fault)

\* _read_text_file: [error, text]
read_text_file(r, st, path, fault) == ReadOn(create_tenant_backend(r), st, path, fault)

DualOutcome(a, b) ==
    IF b.status = "raised"
    THEN [status |-> "raised", error |-> b.error, st |-> b.st,
          private_status |-> "none", public_status |-> "none"]
    ELSE [status |-> "ok", error |-> "none", st |-> b.st,
          private_status |-> a.status, public_status |-> b.status]

DualAfterPrivate(a, r, public_path, content, f2) ==
    IF a.status = "raised"
    THEN [status |-> "raised", error |-> a.error, st |-> a.st,
          private_status |-> "none", public_status |-> "none"]
    ELSE DualOutcome(a, upsert_text_file(r, a.st, public_path, content, f2))

\* _upsert_dual_artifact: the private upsert, then the public one; an error
\* raised by either propagates.  f1, f2 are the faults of the two upserts.
upsert_dual_artifact(r, st, private_path, public_path, content, f1, f2) ==
    DualAfterPrivate(upsert_text_file(r, st, private_path, content, f1),
                     r, public_path, content, f2)

PathManagerFor(ids, made) ==
    IF made # "ok" THEN [error |-> made, pm |-> NoScope]
    ELSE [error |-> "none",
          pm |-> [user_id |-> ids.user_id, thread_id |-> ids.mission_id, valid |-> TRUE]]

PathManagerWithIds(ids) ==
    IF ids.error # "none" THEN [error |-> ids.error, pm |-> NoScope]
    ELSE PathManagerFor(ids, MemoryPathManagerNew([user_id |-> ids.user_id,
                                                   thread_id |-> ids.mission_id]))

\* tools.py _get_path_manager_from_runtime: [error, pm]
get_path_manager_from_runtime(r) == PathManagerWithIds(require_tenant_ids(r))

\* _safe_tool_error: the structured error payload
safe_tool_error_NoTool(tool, error) ==
    [status |-> "error", error_type |-> error, message |-> "str(error)"]

safe_tool_error(tool, error) ==
    [status |-> "error", tool |-> tool, error_type |-> error, message |-> "str(error)"]

PersistDualResult(private_path, d) ==
    IF d.status = "raised"
    THEN [payload |-> safe_tool_error("persist_sources_appendix", d.error), st |-> d.st]
    ELSE [payload |-> [status |-> "ok", artifact |-> "sources_appendix",
                       private_path |-> private_path,
                       private_status |-> d.private_status,
                       public_path |-> PUBLIC_SOURCES_APPENDIX_PATH,
                       public_status |-> d.public_status],
          st |-> d.st]

PersistAt(p, r, st, content, f1, f2) ==
    IF p.error # "none"
    THEN [payload |-> safe_tool_error("persist_sources_appendix", p.error), st |-> st]
    ELSE PersistDualResult(p.path,
             upsert_dual_artifact(r, st, p.path, PUBLIC_SOURCES_APPENDIX_PATH,
                                  content, f1, f2))

PersistWith(g, r, st, content, f1, f2) ==
    IF g.error # "none"
    THEN [payload |-> safe_tool_error("persist_sources_appendix", g.error), st |-> st]
    ELSE PersistAt(thread_path(g.pm, << <<"drafts">>, <<"sources_appendix.md">> >>),
                   r, st, content, f1, f2)

\* persist_sources_appendix: the payload returned and the store left
persist_sources_appendix(r, st, content, f1, f2) ==
    PersistWith(get_path_manager_from_runtime(r), r, st, content, f1, f2)

StoreNow == [state |-> tracked, store |-> files]

\* the text stored at a path, in whichever scope holds it; empty when absent
StoredText(path) ==
    IF path \in DOMAIN tracked THEN tracked[path]
    ELSE IF path \in DOMAIN files THEN files[path]
    ELSE <<>>

\* the paths the upsert is called on
UpsertPaths ==
    { <<"/", "memories", "/", "users", "/", "a", "/", "threads", "/", "a",
        "/", "drafts", "/", "final_report.md">> }

\* the faults of the two upserts of a dual write
DualFaults ==
    { <<"none", "none">>, <<"download", "none">>, <<"write", "none">>,
      <<"none", "write">>, <<"none", "edit">> }

InitStore ==
    /\ rt \in RuntimeInputs
    /\ InitRest

\* one call of _upsert_text_file(runtime, path, content)
Upsert(path, content, fault) ==
    /\ Len(hist) < MaxHist
    /\ \E before \in {Lookup(StoreNow, RouteOf(create_tenant_backend(rt), path), path)},
          r \in {upsert_text_file(rt, StoreNow, path, content, fault)} :
           /\ tracked' = r.st.state
           /\ files' = r.st.store
           /\ hist' = Append(hist, [path |-> path, content |-> content,
                                    healthy |-> (fault = "none"),
                                    status |-> r.status])
           /\ out' = [op |-> "upsert", error |-> r.error, val |-> r.status,
                      args |-> <<path, content, before, fault>>]
    /\ UNCHANGED <<mw, rt, scope, ledger>>

\* one call of the persist_sources_appendix tool
PersistSourcesAppendix(content, f1, f2) ==
    /\ \E r \in {persist_sources_appendix(rt, StoreNow, content, f1, f2)} :
           /\ tracked' = r.st.state
           /\ files' = r.st.store
           /\ out' = [op |-> "persist_sources_appendix",
                      error |-> IF r.payload.status = "error"
                                THEN r.payload.error_type ELSE "none",
                      val |-> r.payload, args |-> <<content>>]
    /\ UNCHANGED <<mw, rt, scope, hist, ledger>>

\* one call of _read_text_file(runtime, path)
ReadText(path, fault) ==
    /\ \E rd \in {read_text_file(rt, StoreNow, path, fault)} :
           out' = [op |-> "read", error |-> rd.error, val |-> rd.text,
                   args |-> <<path, fault>>]
    /\ UNCHANGED <<mw, rt, scope, files, tracked, hist, ledger>>

NextStore ==
    \/ \E p \in UpsertPaths, c \in UpsertContents, f \in Faults : Upsert(p, c, f)
    \/ \E p \in UpsertPaths, f \in {"none", "download"} : ReadText(p, f)
    \/ \E c \in ContentInputs, f \in DualFaults : PersistSourcesAppendix(c, f[1], f[2])

SpecStore == InitStore /\ [][NextStore]_vars

(***************************************************************************)
(* Upsert claims                                                           *)
(***************************************************************************)
\* the runtime carries tenant ids and no backend call of the recorded
\* upserts reported an error
HealthyHistory ==
    /\ rt.ids = "present"
    /\ \A i \in 1..Len(hist) : hist[i].healthy

\* C5: from an absent path, upsert(p, c), upsert(p, c), upsert(p, c'),
\* upsert(p, c') with c' # c return created, unchanged, updated, unchanged.
C5_UpsertSequence ==
    HealthyHistory =>
        /\ Len(hist) >= 1 => hist[1].status = "created"
        /\ (Len(hist) >= 2 /\ hist[2].content = hist[1].content)
               => hist[2].status = "unchanged"
        /\ (Len(hist) >= 3 /\ hist[2].content = hist[1].content
                            /\ hist[3].content # hist[2].content)
               => hist[3].status = "updated"
        /\ (Len(hist) >= 4 /\ hist[2].content = hist[1].content
                            /\ hist[3].content # hist[2].content
                            /\ hist[4].content = hist[3].content)
               => hist[4].status = "unchanged"

C7_DualReportsBothOutcomes ==
    (out.op = "persist_sources_appendix" /\ rt.ids = "present") =>
        /\ "private_status" \in DOMAIN out.val
        /\ "public_status" \in DOMAIN out.val

(***************************************************************************)
(* tools.py: the citation ledger                                           *)
(*                                                                         *)
(* A citation id "WEB-3" is the token sequence <<"WEB", "-", 3>>.          *)
(***************************************************************************)
\* the whitespace tokens
Whitespace == {" ", "\n"}

\* str.lstrip(), str.rstrip(), str.strip() on a token sequence
RECURSIVE LStrip(_)
LStrip(s) == IF s # <<>> /\ s[1] \in Whitespace THEN LStrip(Tail(s)) ELSE s

RECURSIVE RStrip(_)
RStrip(s) ==
    IF s # <<>> /\ s[Len(s)] \in Whitespace THEN RStrip(SubSeq(s, 1, Len(s) - 1)) ELSE s

Strip(s) == RStrip(LStrip(s))

\* the lower-case form of a token: "T" is the upper-case form of "t", the
\* heading tokens are written with a capital S
LowerToken(tok) ==
    CASE tok = "T" -> "t"
      [] tok = "Latest" -> "latest"
      [] tok = "### Sources" -> "### sources"
      [] tok = "## Sources" -> "## sources"
      [] tok = "#### Sources" -> "#### sources"
      [] OTHER -> tok

\* str.lower()
Lower(s) == [i \in 1..Len(s) |-> LowerToken(s[i])]

\* str(channel_value).strip().lower() on the channel inputs
ChannelStripLower(c) == IF c = " MCP " THEN "mcp" ELSE c

WebAliases == {"web", "web_search", "tavily", "tavily_search", "search", "external_web"}

McpAliases == {"alb_mcp", "mcp", "internal_kb", "internal", "lightrag"}

\* _normalize_source_channel: "none" is a missing channel; a value that is
\* no alias and no SourceChannel value falls back to web
normalize_source_channel(c) ==
    IF c = "none" THEN "web"
    ELSE IF ChannelStripLower(c) \in WebAliases THEN "web"
    ELSE IF ChannelStripLower(c) \in McpAliases THEN "alb_mcp"
    ELSE "web"

\* a token that opens the fragment of a URL
FragmentTokens == {"#f", "#g"}

RECURSIVE DropFragment(_)
DropFragment(u) ==
    IF u = <<>> THEN <<>>
    ELSE IF u[1] \in FragmentTokens THEN <<>>
    ELSE <<u[1]>> \o DropFragment(Tail(u))

\* urlparse removes the tab and newline characters of the URL
RECURSIVE RemoveUnsafe(_)
RemoveUnsafe(u) ==
    IF u = <<>> THEN <<>>
    ELSE IF u[1] \in {"\t", "\n"} THEN RemoveUnsafe(Tail(u))
    ELSE <<u[1]>> \o RemoveUnsafe(Tail(u))

\* urlunparse writes no "?" for an empty query
DropEmptyQuery(u) ==
    IF u # <<>> /\ u[Len(u)] = "?" THEN SubSeq(u, 1, Len(u) - 1) ELSE u

canonicalize_url_DropsQuery(url) ==
    IF url = <<>> THEN <<>>
    ELSE SelectSeq(DropFragment(RemoveUnsafe(Strip(url))),
                   LAMBDA tok : tok \notin {"?", "?q"})

\* _canonicalize_url: strip, parse, blank the fragment, unparse
canonicalize_url(url) ==
    IF url = <<>> THEN <<>>
    ELSE DropEmptyQuery(DropFragment(RemoveUnsafe(Strip(url))))

stable_source_fingerprint_Salted(channel, title, url, raw_citation) ==
    <<Len(hist)>> \o <<channel>> \o <<"|">> \o Lower(Strip(title)) \o <<"|">>
        \o canonicalize_url(url) \o <<"|">> \o Strip(raw_citation)

\* _stable_source_fingerprint: the string that is hashed (the digest is
\* taken to be injective on it)
stable_source_fingerprint(channel, title, url, raw_citation) ==
    <<channel>> \o <<"|">> \o Lower(Strip(title)) \o <<"|">>
        \o canonicalize_url(url) \o <<"|">> \o Strip(raw_citation)

ChannelPrefix(channel) == IF channel = "web" THEN "WEB" ELSE "MCP"

new_citation_id_SharedPrefix(channel, index) == <<"WEB", "-", index>>

\* _new_citation_id
new_citation_id(channel, index) == <<ChannelPrefix(channel), "-", index>>

Max_First(a, b) == a

\* max(a, b)
Max(a, b) == IF a >= b THEN a ELSE b

RECURSIVE MaxIndexOf(_, _)
MaxIndexOf(sources, prefix) ==
    IF sources = <<>> THEN 0
    ELSE LET id == sources[1].citation_id
             rest == MaxIndexOf(Tail(sources), prefix)
         IN  IF IsPrefix(<<prefix, "-">>, id) /\ id[Len(id)] \in Nat
             THEN Max(rest, id[Len(id)])
             ELSE rest

extract_existing_max_index_Zero(L, channel) == 0

\* _extract_existing_max_index
extract_existing_max_index(L, channel) == MaxIndexOf(L.sources, ChannelPrefix(channel))

InSeq(x, s) == \E i \in 1..Len(s) : s[i] = x

AddSnippet_NoDedup(snippets, snippet) == Append(snippets, snippet)

\* tools.py 484-487: a non-empty snippet is appended unless already listed
AddSnippet(snippets, snippet) ==
    IF InSeq(snippet, snippets) THEN snippets ELSE Append(snippets, snippet)

AddSectionRef_NoDedup(section_map, section, citation_id) ==
    Put(section_map, section,
        Append(IF section \in DOMAIN section_map THEN section_map[section] ELSE <<>>,
               citation_id))

\* tools.py 489-491: the section index lists an id once
AddSectionRef(section_map, section, citation_id) ==
    LET refs == IF section \in DOMAIN section_map THEN section_map[section] ELSE <<>>
    IN  Put(section_map, section,
            IF InSeq(citation_id, refs) THEN refs ELSE Append(refs, citation_id))

\* one iteration of the loop over the evidence items: [L, web, mcp]
MergeItem(item, c) ==
    LET L == c.L
        channel == normalize_source_channel(item.channel)
        fingerprint == stable_source_fingerprint(channel, item.title, item.url,
                                                 item.raw_citation)
        isNew == fingerprint \notin DOMAIN L.by_fingerprint
        web == IF isNew /\ channel = "web" THEN c.web + 1 ELSE c.web
        mcp == IF isNew /\ channel # "web" THEN c.mcp + 1 ELSE c.mcp
        citation_id == IF isNew
                       THEN new_citation_id(channel, IF channel = "web" THEN web ELSE mcp)
                       ELSE L.by_fingerprint[fingerprint]
        source_item == [citation_id |-> citation_id, channel |-> channel,
                        title |-> item.title, url |-> canonicalize_url(item.url),
                        raw_citation |-> item.raw_citation,
                        snippets |-> IF item.snippet # <<>> THEN <<item.snippet>> ELSE <<>>]
        sources == IF isNew THEN Append(L.sources, source_item)
                   ELSE [i \in 1..Len(L.sources) |->
                           IF L.sources[i].citation_id = citation_id /\ item.snippet # <<>>
                           THEN [L.sources[i] EXCEPT
                                   !.snippets = AddSnippet(@, item.snippet)]
                           ELSE L.sources[i]]
    IN  [L |-> [sources |-> sources,
                by_fingerprint |-> IF isNew THEN Put(L.by_fingerprint, fingerprint, citation_id)
                                   ELSE L.by_fingerprint,
                section_map |-> AddSectionRef(L.section_map, item.section, citation_id)],
         web |-> web, mcp |-> mcp]

RECURSIVE MergeItems(_, _)
MergeItems(items, c) ==
    IF items = <<>> THEN c ELSE MergeItems(Tail(items), MergeItem(items[1], c))

\* build_citation_ledger on well-formed evidence: the ledger returned
build_citation_ledger(evidence, existing) ==
    MergeItems(evidence,
               [L |-> existing,
                web |-> extract_existing_max_index(existing, "web"),
                mcp |-> extract_existing_max_index(existing, "alb_mcp")]).L

(***************************************************************************)
(* tools.py: render_sources_from_ledger                                    *)
(*                                                                         *)
(* A ledger_json argument is the pair [json, L]: json names what the text  *)
(* is ("ledger": the dump of the ledger L; "blank": the empty string;      *)
(* "invalid": no JSON; "array": a JSON list; "error_payload": the object   *)
(* a failed tool returns, without ledger keys; "sources_number": an object *)
(* whose sources is a number).                                             *)
(***************************************************************************)
Digits == <<"0", "1", "2", "3", "4", "5", "6", "7", "8", "9">>

\* the decimal digits of a natural number
RECURSIVE NumStr(_)
NumStr(n) ==
    IF n < 10 THEN <<Digits[n + 1]>>
    ELSE NumStr(n \div 10) \o <<Digits[(n % 10) + 1]>>

\* the characters of a citation id: prefix, "-" and the index in decimal
CitationIdText(id) == <<id[1], id[2]>> \o NumStr(id[3])

\* "\n".join(lines)
RECURSIVE JoinLines(_)
JoinLines(lines) ==
    IF lines = <<>> THEN <<>>
    ELSE IF Len(lines) = 1 THEN lines[1]
    ELSE lines[1] \o <<"\n">> \o JoinLines(Tail(lines))

RECURSIVE SplitLinesFrom(_, _)
SplitLinesFrom(s, cur) ==
    IF s = <<>> THEN (IF cur = <<>> THEN <<>> ELSE <<cur>>)
    ELSE IF s[1] = "\n" THEN <<cur>> \o SplitLinesFrom(Tail(s), <<>>)
    ELSE SplitLinesFrom(Tail(s), Append(cur, s[1]))

\* str.splitlines()
splitlines(s) == SplitLinesFrom(s, <<>>)

LedgerJson(L) == [json |-> "ledger", L |-> L]

BlankJson == [json |-> "blank", L |-> EmptyLedger]

MalformedLedgerJson ==
    { [json |-> k, L |-> EmptyLedger] :
        k \in {"invalid", "array", "error_payload", "sources_number"} }

\* json.loads(text): the error raised, or the value: its kind, what its
\* "sources" key holds ("absent" when the object has no ledger keys) and
\* the ledger it carries
json_loads(text) ==
    CASE text.json \in {"invalid", "blank"} ->
             [error |-> "JSONDecodeError", kind |-> "none", sources |-> "absent",
              L |-> EmptyLedger]
      [] text.json = "array" ->
             [error |-> "none", kind |-> "array", sources |-> "absent", L |-> EmptyLedger]
      [] text.json \in {"error_payload", "empty_object"} ->
             [error |-> "none", kind |-> "object", sources |-> "absent", L |-> EmptyLedger]
      [] text.json = "sources_number" ->
             [error |-> "none", kind |-> "object", sources |-> "number", L |-> EmptyLedger]
      [] OTHER ->
             [error |-> "none", kind |-> "object", sources |-> "list", L |-> text.L]

\* ledger_json or "{}"
OrEmptyObject(text) ==
    IF text.json = "blank" THEN [json |-> "empty_object", L |-> EmptyLedger] ELSE text

\* set(ledger.get("section_map", {}).get(section, []))
TargetIds(section_map, section) ==
    IF section \in DOMAIN section_map
    THEN {section_map[section][i] : i \in 1..Len(section_map[section])}
    ELSE {}

RECURSIVE KeepSources(_, _)
KeepSources(sources, ids) ==
    IF sources = <<>> THEN <<>>
    ELSE IF sources[1].citation_id \in ids
    THEN <<sources[1]>> \o KeepSources(Tail(sources), ids)
    ELSE KeepSources(Tail(sources), ids)

SectionSources_All(all_sources, section_map, section) == all_sources

\* tools.py 516-520: the sources of the section, or all of them
SectionSources(all_sources, section_map, section) ==
    IF section # "" THEN KeepSources(all_sources, TargetIds(section_map, section))
    ELSE all_sources

\* tools.py 524-530: "[id] (channel) title: url" and the raw citation suffix
SourceLine(source) ==
    <<"[">> \o CitationIdText(source.citation_id)
        \o <<"]", " ", "(", source.channel, ")", " ">> \o source.title
        \o <<":", " ">> \o source.url
        \o (IF source.raw_citation # <<>>
            THEN <<" | raw_citation=">> \o source.raw_citation ELSE <<>>)

\* tools.py 522-535
NoSourcesIfBare(lines) ==
    IF Len(lines) = 1 THEN Append(lines, <<"(No sources)">>) ELSE lines

RenderLines(sources) ==
    NoSourcesIfBare(<< <<"### Sources">> >>
                        \o [i \in 1..Len(sources) |-> SourceLine(sources[i])])

\* tools.py 537-541: the block returned when an exception was caught
Degraded(error) ==
    <<"### Sources", "\n", "[WARN] render_sources_from_ledger degraded: ", error, ": ",
      "message", "\n", "(No sources)">>

RenderParsed(parsed, section) ==
    IF parsed.error # "none" THEN Degraded(parsed.error)
    ELSE IF parsed.kind # "object" THEN Degraded("AttributeError")
    ELSE IF parsed.sources = "number" THEN Degraded("TypeError")
    ELSE JoinLines(RenderLines(SectionSources(parsed.L.sources, parsed.L.section_map,
                                              section)))

\* render_sources_from_ledger(ledger_json, section): the markdown returned
render_sources_from_ledger(ledger_json, section) ==
    RenderParsed(json_loads(OrEmptyObject(ledger_json)), section)

(***************************************************************************)
(* Evidence inputs                                                         *)
(***************************************************************************)
Item(channel, title, url, section, raw_citation, snippet) ==
    [channel |-> channel, title |-> title, url |-> url, section |-> section,
     raw_citation |-> raw_citation, snippet |-> snippet]

\* one web record with two snippets and without snippet, the same source
\* under an alias channel, other letter case and a URL fragment, a record
\* that differs in the query only, and an internal record
Items ==
    { Item("web", <<"t">>, <<"u1">>, "Intro", <<>>, <<"s1">>),
      Item("web", <<"t">>, <<"u1">>, "Analysis", <<>>, <<"s2">>),
      Item("web", <<"t">>, <<"u1">>, "Intro", <<>>, <<>>),
      Item("tavily", <<" ", "T">>, <<"u1", "#f">>, "Analysis", <<>>, <<"s1">>),
      Item("web", <<"t">>, <<"u1", "?q">>, "Analysis", <<>>, <<"s1">>),
      Item(" MCP ", <<"t">>, <<"u1">>, "Intro", <<"r">>, <<"s1">>) }

RECURSIVE SeqsUpTo(_, _)
SeqsUpTo(S, n) ==
    IF n = 0 THEN {<<>>}
    ELSE LET shorter == SeqsUpTo(S, n - 1)
         IN  shorter \cup {Append(q, x) : q \in {r \in shorter : Len(r) = n - 1}, x \in S}

EvidenceInputs == SeqsUpTo(Items, MaxEvidence)

\* three web sources and two internal sources
BatchItems ==
    { Item("web", <<"t">>, <<"u1">>, "Intro", <<>>, <<"s1">>),
      Item("search", <<"t">>, <<"u2">>, "Intro", <<>>, <<"s1">>),
      Item("none", <<"t">>, <<"u3">>, "Analysis", <<>>, <<>>),
      Item("mcp", <<"t">>, <<"u1">>, "Analysis", <<"r">>, <<"s1">>),
      Item("lightrag", <<"t">>, <<"u2">>, "Intro", <<"r">>, <<"s2">>) }

\* the evidence lists of up to MaxBatch distinct batch items, in any order
BatchInputs ==
    { q \in SeqsUpTo(BatchItems, MaxBatch) :
        \A i \in 1..Len(q), j \in 1..Len(q) : i # j => q[i] # q[j] }

InitLedger ==
    /\ rt = DefaultRuntime
    /\ InitRest

\* build_citation_ledger(evidence, prior ledger): the caller keeps the
\* ledger returned; out records the number of items, the number of sources
\* of the prior ledger and the last item
Build(evidence) ==
    /\ ledger' = build_citation_ledger(evidence, ledger)
    /\ out' = [op |-> "build", error |-> "none",
               val |-> [n |-> Len(evidence), prior |-> Len(ledger.sources)],
               args |-> IF evidence = <<>> THEN <<>> ELSE <<evidence[Len(evidence)]>>]
    /\ UNCHANGED <<mw, rt, scope, files, tracked, hist>>

NextLedger == \E evidence \in EvidenceInputs : Build(evidence)

SpecLedger == InitLedger /\ [][NextLedger]_vars

\* build_citation_ledger on a batch of distinct sources; out records the
\* number of sources of the prior ledger
BuildBatch(evidence) ==
    /\ ledger' = build_citation_ledger(evidence, ledger)
    /\ out' = [op |-> "build_batch", error |-> "none",
               val |-> [prior |-> Len(ledger.sources)], args |-> <<>>]
    /\ UNCHANGED <<mw, rt, scope, files, tracked, hist>>

NextNumbering == \E evidence \in BatchInputs : BuildBatch(evidence)

SpecNumbering == InitLedger /\ [][NextNumbering]_vars

\* the evidence lists of the repeated calls: no evidence, one source, two
\* sources in either order, a source submitted from two sections, and two
\* sources of one section
RunInputs ==
    { <<>>,
      << Item("web", <<"t">>, <<"u1">>, "Intro", <<>>, <<"s1">>) >>,
      << Item("web", <<"t">>, <<"u1">>, "Intro", <<>>, <<"s1">>),
         Item("mcp", <<"t">>, <<"u1">>, "Analysis", <<"r">>, <<"s1">>) >>,
      << Item("mcp", <<"t">>, <<"u1">>, "Analysis", <<"r">>, <<"s1">>),
         Item("web", <<"t">>, <<"u1">>, "Intro", <<>>, <<"s1">>) >>,
      << Item("web", <<"t">>, <<"u2">>, "Intro", <<>>, <<"s1">>),
         Item("web", <<"t">>, <<"u1">>, "Intro", <<>>, <<"s1">>) >>,
      << Item("web", <<"t">>, <<"u1">>, "Intro", <<>>, <<"s1">>),
         Item("tavily", <<"t">>, <<"u1", "#f">>, "Analysis", <<>>, <<"s2">>) >>,
      << Item("web", <<"t">>, <<"u1">>, "Analysis", <<>>, <<"s2">>),
         Item("web", <<"t">>, <<"u1", "?q">>, "Analysis", <<>>, <<"s1">>) >> }

\* the prior ledgers a caller holds: the ledger last returned and the
\* snapshots it passed to earlier calls
PriorsHeld == {ledger} \cup {hist[i].prior : i \in 1..Len(hist)}

\* build_citation_ledger(evidence_json, existing_ledger_json) called with a
\* prior ledger the caller holds; hist records the inputs and the output of
\* every call
Run(evidence, prior) ==
    /\ Len(hist) < MaxRuns
    /\ ledger' = build_citation_ledger(evidence, prior)
    /\ hist' = Append(hist, [evidence |-> evidence, prior |-> prior,
                            result |-> ledger'])
    /\ out' = [op |-> "run", error |-> "none", val |-> <<>>, args |-> <<>>]
    /\ UNCHANGED <<mw, rt, scope, files, tracked>>

NextRuns == \E evidence \in RunInputs, prior \in PriorsHeld : Run(evidence, prior)

SpecRuns == InitLedger /\ [][NextRuns]_vars

\* the section arguments of the renderer; "General" is in no section_map
SectionInputs == {"", "Intro", "Analysis", "General"}

\* render_sources_from_ledger(ledger_json, section) on the dump of the
\* caller's ledger or on a text that is no ledger
Render(ledger_json, section) ==
    /\ out' = [op |-> "render", error |-> "none",
               val |-> render_sources_from_ledger(ledger_json, section),
               args |-> <<ledger_json.json, section>>]
    /\ UNCHANGED <<mw, rt, scope, files, tracked, hist, ledger>>

NextRender ==
    \/ \E evidence \in RunInputs : Build(evidence)
    \/ \E text \in {LedgerJson(ledger), BlankJson} \cup MalformedLedgerJson,
          section \in SectionInputs : Render(text, section)

SpecRender == InitLedger /\ [][NextRender]_vars

(***************************************************************************)
(* tools.py: finalize_mission_report and verify_and_repair_final_report    *)
(*                                                                         *)
(* A report is a token sequence; a citation marker "[WEB-1]" is the tokens *)
(* "[", "WEB", "-", "1", "]".  The file at the ledger path holds a         *)
(* ledger_json value.                                                      *)
(***************************************************************************)
\* the tokens made of letters only
AlphaTokens == {"WEB", "MCP", "UNK", "Finding", "Body", "and", "a", "b", "t", "T"}

DigitTokens == {Digits[i] : i \in 1..Len(Digits)}

\* the last position of the run of tokens of the class that starts at i;
\* i - 1 when there is none
RECURSIVE RunEnd(_, _, _)
RunEnd(s, i, class) ==
    IF i <= Len(s) /\ s[i] \in class THEN RunEnd(s, i + 1, class) ELSE i - 1

ClosedAt(s, e) == IF e + 1 <= Len(s) /\ s[e + 1] = "]" THEN e + 1 ELSE 0

\* [A-Za-z]+-\d+\] from position i: the position of the "]", 0 without match
PrefixedEnd(s, i, a) ==
    IF a >= i /\ a + 1 <= Len(s) /\ s[a + 1] = "-"
          /\ RunEnd(s, a + 2, DigitTokens) >= a + 2
    THEN ClosedAt(s, RunEnd(s, a + 2, DigitTokens))
    ELSE 0

\* \d+\] from position i
BareEnd(s, i, d) == IF d >= i THEN ClosedAt(s, d) ELSE 0

\* \[([A-Za-z]+-\d+|\d+)\] at position i: the position of the "]", 0
\* without match
MarkerEnd(s, i) ==
    IF s[i] # "[" THEN 0
    ELSE IF PrefixedEnd(s, i + 1, RunEnd(s, i + 1, AlphaTokens)) # 0
    THEN PrefixedEnd(s, i + 1, RunEnd(s, i + 1, AlphaTokens))
    ELSE BareEnd(s, i + 1, RunEnd(s, i + 1, DigitTokens))

\* re.findall from position i on, as a set
RECURSIVE FindMarkers(_, _)
RECURSIVE MarkersAfter(_, _, _)
FindMarkers(s, i) ==
    IF i > Len(s) THEN {} ELSE MarkersAfter(s, i, MarkerEnd(s, i))

MarkersAfter(s, i, e) ==
    IF e = 0 THEN FindMarkers(s, i + 1)
    ELSE {SubSeq(s, i + 1, e - 1)} \cup FindMarkers(s, e + 1)

\* _extract_inline_citation_ids
extract_inline_citation_ids(markdown) == FindMarkers(markdown, 1)

\* the heading texts a lower-case token contains
HeadingsWithin(tok) ==
    CASE tok = "## sources" -> {"## sources"}
      [] tok \in {"### sources", "#### sources"} -> {"### sources", "## sources"}
      [] OTHER -> {}

\* needle in text
ContainsText(text, needle) == \E i \in 1..Len(text) : needle \in HeadingsWithin(text[i])

\* _has_sources_section
has_sources_section(markdown) ==
    \/ ContainsText(Lower(markdown), "### sources")
    \/ ContainsText(Lower(markdown), "## sources")

\* tools.py 706-710: the index of the first heading line, 0 when none
RECURSIVE HeadingLineFrom(_, _)
HeadingLineFrom(lines, idx) ==
    IF idx > Len(lines) THEN 0
    ELSE IF Lower(Strip(lines[idx])) \in { <<"### sources">>, <<"## sources">> } THEN idx
    ELSE HeadingLineFrom(lines, idx + 1)

SectionMarkers(lines, start_idx) ==
    IF start_idx = 0 THEN {}
    ELSE FindMarkers(JoinLines(SubSeq(lines, start_idx + 1, Len(lines))), 1)

MarkersOfLines(lines) == SectionMarkers(lines, HeadingLineFrom(lines, 1))

\* _extract_sources_section_ids
extract_sources_section_ids(markdown) == MarkersOfLines(splitlines(markdown))

\* "\n\n---\n\n"
Separator == <<"\n", "\n", "---", "\n", "\n">>

\* what a handler that raised before composing has composed
NotComposed == [done |-> FALSE, content |-> <<>>]

Composed(content) == [done |-> TRUE, content |-> content]

\* tools.py 665-668
compose(body, appendix) ==
    IF appendix # <<>> THEN RStrip(body) \o Separator \o appendix \o <<"\n">>
    ELSE RStrip(body) \o <<"\n">>

FinalizeError(error, st, composed) ==
    [payload |-> safe_tool_error("finalize_mission_report", error), st |-> st,
     composed |-> composed]

FinalizeDual(private_path, content, d) ==
    IF d.status = "raised" THEN FinalizeError(d.error, d.st, Composed(content))
    ELSE [payload |-> [status |-> "ok", artifact |-> "final_report",
                       private_path |-> private_path,
                       private_status |-> d.private_status,
                       public_path |-> PUBLIC_FINAL_REPORT_PATH,
                       public_status |-> d.public_status,
                       delivery_path |-> PUBLIC_FINAL_REPORT_PATH],
          st |-> d.st, composed |-> Composed(content)]

FinalizeWrite(private_path, r, st, content, f1, f2) ==
    FinalizeDual(private_path, content,
                 upsert_dual_artifact(r, st, private_path, PUBLIC_FINAL_REPORT_PATH,
                                      content, f1, f2))

FinalizeRead(private_path, rd, r, st, body, f1, f2) ==
    IF rd.error # "none" THEN FinalizeError(rd.error, st, NotComposed)
    ELSE FinalizeWrite(private_path, r, st, compose(body, Strip(rd.text)), f1, f2)

\* tools.py 661-675 once both paths are derived
FinalizeAt(ap, pp, r, st, body, appendix, fr, f1, f2) ==
    IF ap.error # "none" THEN FinalizeError(ap.error, st, NotComposed)
    ELSE IF pp.error # "none" THEN FinalizeError(pp.error, st, NotComposed)
    ELSE IF Strip(appendix) # <<>>
    THEN FinalizeWrite(pp.path, r, st, compose(body, Strip(appendix)), f1, f2)
    ELSE FinalizeRead(pp.path, read_text_file(r, st, ap.path, fr), r, st, body, f1, f2)

FinalizeWith(g, r, st, body, appendix, fr, f1, f2) ==
    IF g.error # "none" THEN FinalizeError(g.error, st, NotComposed)
    ELSE FinalizeAt(thread_path(g.pm, << <<"drafts">>, <<"sources_appendix.md">> >>),
                    thread_path(g.pm, << <<"drafts">>, <<"final_report.md">> >>),
                    r, st, body, appendix, fr, f1, f2)

\* finalize_mission_report: the payload returned, the store left and the
\* content composed; fr, f1, f2 are the faults of the appendix read and of
\* the two upserts
finalize_mission_report(r, st, body, appendix, fr, f1, f2) ==
    FinalizeWith(get_path_manager_from_runtime(r), r, st, body, appendix, fr, f1, f2)

GateError(error, st) ==
    [payload |-> safe_tool_error("verify_and_repair_final_report", error), st |-> st]

\* tools.py 788-805
GateResult(report_text, repaired, notes, st) ==
    [payload |->
        [status |-> IF /\ has_sources_section(report_text)
                       /\ extract_inline_citation_ids(report_text)
                              \subseteq extract_sources_section_ids(report_text)
                    THEN "pass" ELSE "fail",
         repaired |-> repaired,
         notes |-> notes,
         final_report_path |-> PUBLIC_FINAL_REPORT_PATH,
         unmatched_inline_citations |->
             extract_inline_citation_ids(report_text)
                 \ extract_sources_section_ids(report_text)],
     st |-> st]

GateWritten(report_text, notes, d) ==
    IF d.status = "raised" THEN GateError(d.error, d.st)
    ELSE GateResult(report_text, TRUE, notes, d.st)

\* report_text.rstrip() + "\n\n---\n\n" + full_sources_markdown + "\n"
Repaired(report_text, full_sources_markdown) ==
    RStrip(report_text) \o Separator \o full_sources_markdown \o <<"\n">>

GateWrite(report_text, notes, private_path, r, st, fl) ==
    GateWritten(report_text, notes,
                upsert_dual_artifact(r, st, private_path, PUBLIC_FINAL_REPORT_PATH,
                                     report_text, fl.w1, fl.w2))

\* tools.py 767-786
GateRepair(report_text, full_sources_markdown, private_path, r, st, fl) ==
    IF ~has_sources_section(report_text)
    THEN GateWrite(Repaired(report_text, full_sources_markdown),
                   "appended missing Sources section from ledger", private_path, r, st, fl)
    ELSE IF extract_inline_citation_ids(report_text)
                \ extract_sources_section_ids(report_text) # {}
    THEN GateWrite(Repaired(report_text, full_sources_markdown),
                   "sources section missing citation ids", private_path, r, st, fl)
    ELSE GateResult(report_text, FALSE, "none", st)

\* tools.py 761-765
GateWithLedger(report_text, rd, private_path, r, st, fl) ==
    IF rd.error # "none" THEN GateError(rd.error, st)
    ELSE GateRepair(report_text,
                    IF rd.text # <<>> THEN render_sources_from_ledger(rd.text, "")
                    ELSE <<"### Sources", "\n", "(No sources)">>,
                    private_path, r, st, fl)

GateOnReport(report_text, ledger_path, private_path, r, st, fl) ==
    GateWithLedger(report_text, read_text_file(r, st, ledger_path, fl.ledger),
                   private_path, r, st, fl)

\* tools.py 742-752
GateReadPrivate(rd, ledger_path, private_path, r, st, fl) ==
    IF rd.error # "none" THEN GateError(rd.error, st)
    ELSE IF Strip(rd.text) = <<>>
    THEN [payload |-> [status |-> "fail", reason |-> "final report is empty or missing",
                       final_report_path |-> PUBLIC_FINAL_REPORT_PATH],
          st |-> st]
    ELSE GateOnReport(rd.text, ledger_path, private_path, r, st, fl)

\* tools.py 740-742
GateReadPublic(rd, ledger_path, private_path, r, st, fl) ==
    IF rd.error # "none" THEN GateError(rd.error, st)
    ELSE IF Strip(rd.text) # <<>>
    THEN GateOnReport(rd.text, ledger_path, private_path, r, st, fl)
    ELSE GateReadPrivate(read_text_file(r, st, private_path, fl.private),
                         ledger_path, private_path, r, st, fl)

GateAt(lp, pp, r, st, fl) ==
    IF lp.error # "none" THEN GateError(lp.error, st)
    ELSE IF pp.error # "none" THEN GateError(pp.error, st)
    ELSE GateReadPublic(read_text_file(r, st, PUBLIC_FINAL_REPORT_PATH, fl.public),
                        lp.path, pp.path, r, st, fl)

GateWith(g, r, st, fl) ==
    IF g.error # "none" THEN GateError(g.error, st)
    ELSE GateAt(thread_path(g.pm, << <<"knowledge_graph">>, <<"citation_ledger.json">> >>),
                thread_path(g.pm, << <<"drafts">>, <<"final_report.md">> >>),
                r, st, fl)

\* verify_and_repair_final_report: the payload returned and the store left;
\* fl names the faults of the three reads and of the two upserts
verify_and_repair_final_report(r, st, fl) ==
    GateWith(get_path_manager_from_runtime(r), r, st, fl)

\* the text the gate returns: json.dumps of its payload
GateJson(payload) == [json |-> "object", payload |-> payload]

\* tools.py 836-842: the gate status publish reads from the gate's text; a
\* text json.loads rejects, or a value without .get, leaves "fail"
VerifyStatus(verify_result) ==
    IF verify_result.json # "object" THEN "fail"
    ELSE IF "status" \in DOMAIN verify_result.payload
    THEN LowerToken(verify_result.payload.status)
    ELSE "fail"

PublishStatus_ErrorPasses(verify_status) ==
    IF verify_status # "fail" THEN "pass" ELSE "fail"

\* tools.py 846
PublishStatus(verify_status) ==
    IF verify_status = "pass" THEN "pass" ELSE "fail"

\* tools.py 844-851
PublishPayload(finalize_payload, verify_result) ==
    [status |-> PublishStatus(VerifyStatus(verify_result)),
     finalize |-> finalize_payload,
     verify |-> verify_result,
     delivery_path |-> PUBLIC_FINAL_REPORT_PATH,
     next_action |-> IF VerifyStatus(verify_result) = "pass" THEN "complete"
                     ELSE "repair_and_retry_publish"]

PublishVerified(fin, ver) ==
    [payload |-> PublishPayload(fin.payload, GateJson(ver.payload)), st |-> ver.st]

PublishFinalized(fin, r, fg) ==
    PublishVerified(fin, verify_and_repair_final_report(r, fin.st, fg))

\* publish_final_report: finalize, then the gate on the store finalize left,
\* then the decision; both inner tools catch every exception, so the outer
\* handler at 855-856 has nothing to catch.  ff and fg name the faults of the
\* finalize call and of the gate call.
publish_final_report(r, st, body, appendix, ff, fg) ==
    PublishFinalized(finalize_mission_report(r, st, body, appendix,
                                             ff.read, ff.w1, ff.w2),
                     r, fg)

(***************************************************************************)
(* Report inputs and the report specification                              *)
(***************************************************************************)
\* the path manager of the runtime inputs (user a, mission a)
ScopeA == [user_id |-> <<"a">>, thread_id |-> <<"a">>, valid |-> TRUE]

PrivateReportPath == thread_path(ScopeA, << <<"drafts">>, <<"final_report.md">> >>).path

AppendixPath == thread_path(ScopeA, << <<"drafts">>, <<"sources_appendix.md">> >>).path

LedgerPath ==
    thread_path(ScopeA, << <<"knowledge_graph">>, <<"citation_ledger.json">> >>).path

\* a ledger holding WEB-1, and one holding WEB-1 and WEB-2
LedgerA ==
    build_citation_ledger(<< Item("web", <<"t">>, <<"u1">>, "Intro", <<>>, <<"s1">>) >>,
                          EmptyLedger)

LedgerAB ==
    build_citation_ledger(<< Item("web", <<"t">>, <<"u1">>, "Intro", <<>>, <<"s1">>),
                             Item("web", <<"t">>, <<"u2">>, "Intro", <<>>, <<"s1">>) >>,
                          EmptyLedger)

\* "Finding [WEB-1] and [WEB-2].": a body that cites two sources
CitingBody ==
    <<"Finding", " ", "[", "WEB", "-", "1", "]", " ", "and", " ",
      "[", "WEB", "-", "2", "]", ".">>

\* the body followed by a sources section that lists both sources
PassingReport ==
    CitingBody \o Separator
        \o render_sources_from_ledger(LedgerJson(LedgerAB), "") \o <<"\n">>

\* the body followed by a sources section that lists WEB-1 only
PartialReport ==
    CitingBody \o Separator
        \o render_sources_from_ledger(LedgerJson(LedgerA), "") \o <<"\n">>

BodyInputs == { CitingBody, <<"Body", " ", "\n">> }

AppendixInputs ==
    { <<>>, <<" ", "\n">>,
      <<" ">> \o render_sources_from_ledger(LedgerJson(LedgerAB), "") \o <<"\n">> }

\* the files a run starts with (runtime.state["files"] and the store as
\* left by earlier runs): nothing; a passing report and its ledger; a
\* report without sources section and a ledger that covers it; a report
\* whose sources section lacks WEB-2, with a ledger that lacks WEB-2 and
\* with one that holds it; a private report and a stored appendix only; a
\* passing public report beside a private one without sources section; a
\* blank public report beside a passing private one
StoredInputs ==
    { EmptyMap,
      Put(Put(Put(EmptyMap, PUBLIC_FINAL_REPORT_PATH, PassingReport),
              PrivateReportPath, PassingReport),
          LedgerPath, LedgerJson(LedgerAB)),
      Put(Put(EmptyMap, PUBLIC_FINAL_REPORT_PATH, CitingBody \o <<"\n">>),
          LedgerPath, LedgerJson(LedgerAB)),
      Put(Put(EmptyMap, PUBLIC_FINAL_REPORT_PATH, PartialReport),
          LedgerPath, LedgerJson(LedgerA)),
      Put(Put(EmptyMap, PUBLIC_FINAL_REPORT_PATH, PartialReport),
          LedgerPath, LedgerJson(LedgerAB)),
      Put(Put(EmptyMap, PrivateReportPath, CitingBody \o <<"\n">>),
          AppendixPath, render_sources_from_ledger(LedgerJson(LedgerAB), "")),
      Put(Put(Put(EmptyMap, PUBLIC_FINAL_REPORT_PATH, PassingReport),
              PrivateReportPath, CitingBody \o <<"\n">>),
          LedgerPath, LedgerJson(LedgerAB)),
      Put(Put(Put(EmptyMap, PUBLIC_FINAL_REPORT_PATH, <<" ", "\n">>),
              PrivateReportPath, PassingReport),
          LedgerPath, LedgerJson(LedgerAB)) }

\* the files of m that the backend of runtime r keeps in the store scope
InStoreScope(r, m) ==
    { q \in DOMAIN m :
        r.store /\ IsPrefix(<<"/", "memories", "/", "users", "/">> \o r.user_id \o <<"/">>, q) }

\* the two scopes holding the files of m for runtime r
StorageOf(r, m) ==
    [state |-> [q \in (DOMAIN m) \ InStoreScope(r, m) |-> m[q]],
     store |-> [q \in InStoreScope(r, m) |-> m[q]]]

NoFaults == [read |-> "none", public |-> "none", private |-> "none",
             ledger |-> "none", w1 |-> "none", w2 |-> "none"]

\* the backend call that reports an error during a tool call, if any
ToolFaults ==
    { NoFaults,
      [NoFaults EXCEPT !.read = "download"],
      [NoFaults EXCEPT !.public = "download"],
      [NoFaults EXCEPT !.ledger = "download"],
      [NoFaults EXCEPT !.w1 = "edit"],
      [NoFaults EXCEPT !.w2 = "write"] }

InitReport ==
    /\ rt \in RuntimeInputs
    /\ \E m \in StoredInputs :
           /\ tracked = StorageOf(rt, m).state
           /\ files = StorageOf(rt, m).store
    /\ scope = NoScope
    /\ out = NoOut
    /\ hist = <<>>
    /\ ledger = EmptyLedger
    /\ mw = MiddlewareNew

\* one call of the finalize_mission_report tool; out records the body, the
\* appendix, the content composed and whether the backend was healthy
Finalize(body, appendix, fl) ==
    /\ \E r \in {finalize_mission_report(rt, StoreNow, body, appendix,
                                         fl.read, fl.w1, fl.w2)} :
           /\ tracked' = r.st.state
           /\ files' = r.st.store
           /\ out' = [op |-> "finalize",
                      error |-> IF r.payload.status = "error"
                                THEN r.payload.error_type ELSE "none",
                      val |-> r.payload,
                      args |-> <<body, appendix, r.composed, fl = NoFaults>>]
    /\ UNCHANGED <<mw, rt, scope, hist, ledger>>

\* one call of the verify_and_repair_final_report tool; out records whether
\* the backend was healthy
VerifyAndRepair(fl) ==
    /\ \E r \in {verify_and_repair_final_report(rt, StoreNow, fl)} :
           /\ tracked' = r.st.state
           /\ files' = r.st.store
           /\ out' = [op |-> "verify",
                      error |-> IF r.payload.status = "error"
                                THEN r.payload.error_type ELSE "none",
                      val |-> r.payload,
                      args |-> <<fl = NoFaults>>]
    /\ UNCHANGED <<mw, rt, scope, hist, ledger>>

\* one call of the publish_final_report tool; out records whether the
\* backend was healthy throughout, and the body
Publish(body, appendix, ff, fg) ==
    /\ \E r \in {publish_final_report(rt, StoreNow, body, appendix, ff, fg)} :
           /\ tracked' = r.st.state
           /\ files' = r.st.store
           /\ out' = [op |-> "publish",
                      error |-> IF r.payload.status = "error"
                                THEN r.payload.error_type ELSE "none",
                      val |-> r.payload,
                      args |-> <<ff = NoFaults /\ fg = NoFaults, body>>]
    /\ UNCHANGED <<mw, rt, scope, hist, ledger>>

NextReport ==
    \/ \E body \in BodyInputs, appendix \in AppendixInputs, fl \in ToolFaults :
           Finalize(body, appendix, fl)
    \/ \E fl \in ToolFaults : VerifyAndRepair(fl)
    \/ \E body \in BodyInputs, appendix \in AppendixInputs,
          ff \in ToolFaults, fg \in ToolFaults :
           Publish(body, appendix, ff, fg)

SpecReport == InitReport /\ [][NextReport]_vars

(***************************************************************************)
(* tools.py: the tool boundary of mission_storage_manifest,                *)
(* build_citation_ledger and persist_citation_ledger                       *)
(***************************************************************************)
ManifestPaths(pm, ledger_path, appendix_path, report_path) ==
    IF ledger_path.error # "none"
    THEN safe_tool_error("mission_storage_manifest", ledger_path.error)
    ELSE IF appendix_path.error # "none"
    THEN safe_tool_error("mission_storage_manifest", appendix_path.error)
    ELSE IF report_path.error # "none"
    THEN safe_tool_error("mission_storage_manifest", report_path.error)
    ELSE [status |-> "ok",
          canonical_delivery_root |-> <<"/">>,
          user_profile_preferences |-> PathStr(user_profile_preferences(pm)),
          thread_root |-> PathStr(thread_root(pm)),
          mission_root |-> PathStr(mission_root(pm)),
          raw_materials_dir |-> PathStr(raw_materials_dir(pm)),
          knowledge_graph_dir |-> PathStr(knowledge_graph_dir(pm)),
          drafts_dir |-> PathStr(drafts_dir(pm)),
          citation_ledger_path |-> ledger_path.path,
          sources_appendix_private_path |-> appendix_path.path,
          sources_appendix_public_path |-> PUBLIC_SOURCES_APPENDIX_PATH,
          final_report_private_path |-> report_path.path,
          final_report_public_path |-> PUBLIC_FINAL_REPORT_PATH,
          final_report_path |-> PUBLIC_FINAL_REPORT_PATH]

ManifestWith(g) ==
    IF g.error # "none" THEN safe_tool_error("mission_storage_manifest", g.error)
    ELSE ManifestPaths(g.pm,
             thread_path(g.pm, << <<"knowledge_graph">>, <<"citation_ledger.json">> >>),
             thread_path(g.pm, << <<"drafts">>, <<"sources_appendix.md">> >>),
             thread_path(g.pm, << <<"drafts">>, <<"final_report.md">> >>))

\* mission_storage_manifest: the payload returned
mission_storage_manifest(r) == ManifestWith(get_path_manager_from_runtime(r))

\* evidence_json: the JSON text of {"evidence": [...]}, the empty text, a
\* text that is no JSON, and a JSON list
EvidenceJson(evidence) == [json |-> "evidence", evidence |-> evidence]

BlankEvidenceJson == [json |-> "blank", evidence |-> <<>>]

MalformedEvidenceJson ==
    { [json |-> k, evidence |-> <<>>] : k \in {"invalid", "array"} }

\* the text build_citation_ledger returns when it caught an error
BuildFailed(error) ==
    [error |-> error, text |-> [json |-> "error_payload", L |-> EmptyLedger]]

BuildDone(text) == [error |-> "none", text |-> text]

\* tools.py 444-493 on the parsed existing ledger: a value without .get
\* fails at 449, a "sources" that is no list fails in the scan at 148, a
\* missing "sources" fails at 479 on the first new item
BuildOnExisting(evidence, existing_ledger_json, ex) ==
    IF ex.error # "none" THEN BuildFailed(ex.error)
    ELSE IF ex.kind # "object" THEN BuildFailed("AttributeError")
    ELSE IF ex.sources = "number" THEN BuildFailed("TypeError")
    ELSE IF ex.sources = "absent"
    THEN IF evidence = <<>> THEN BuildDone(existing_ledger_json)
         ELSE BuildFailed("KeyError")
    ELSE BuildDone(LedgerJson(build_citation_ledger(evidence, ex.L)))

\* tools.py 441-447
BuildOnEvidence(evidence_json, existing_ledger_json) ==
    IF evidence_json.json = "invalid" THEN BuildFailed("JSONDecodeError")
    ELSE IF evidence_json.json = "array" THEN BuildFailed("AttributeError")
    ELSE IF existing_ledger_json.json = "blank"
    THEN BuildDone(LedgerJson(build_citation_ledger(evidence_json.evidence, EmptyLedger)))
    ELSE BuildOnExisting(evidence_json.evidence, existing_ledger_json,
                         json_loads(existing_ledger_json))

\* the build_citation_ledger tool on its two JSON texts: [error, text]
build_citation_ledger_tool(evidence_json, existing_ledger_json) ==
    BuildOnEvidence(evidence_json, existing_ledger_json)

\* the JSON object a text returned by build_citation_ledger holds
BuildObject(b) ==
    IF b.error # "none" THEN safe_tool_error("build_citation_ledger", b.error)
    ELSE IF b.text.json = "ledger" THEN b.text.L
    ELSE IF b.text.json = "error_payload"
    THEN safe_tool_error("build_citation_ledger", "JSONDecodeError")
    ELSE EmptyMap

PersistLedgerError(error, st) ==
    [payload |-> safe_tool_error("persist_citation_ledger", error), st |-> st,
     kind |-> "object"]

\* tools.py 595: the sentence returned on success
PersistLedgerDone(ledger_path, u) ==
    IF u.status = "raised" THEN PersistLedgerError(u.error, u.st)
    ELSE [payload |-> <<"Citation ledger ", u.status, ": ">> \o ledger_path,
          st |-> u.st, kind |-> "text"]

PersistLedgerAt(p, r, st, ledger_json, fault) ==
    IF p.error # "none" THEN PersistLedgerError(p.error, st)
    ELSE PersistLedgerDone(p.path, upsert_text_file(r, st, p.path, ledger_json, fault))

PersistLedgerWith(g, r, st, ledger_json, fault) ==
    IF g.error # "none" THEN PersistLedgerError(g.error, st)
    ELSE PersistLedgerAt(
             thread_path(g.pm, << <<"knowledge_graph">>, <<"citation_ledger.json">> >>),
             r, st, ledger_json, fault)

\* persist_citation_ledger: what is returned (a JSON object or a sentence)
\* and the store left
persist_citation_ledger(r, st, ledger_json, fault) ==
    PersistLedgerWith(get_path_manager_from_runtime(r), r, st, ledger_json, fault)

(***************************************************************************)
(* tools.py: _decide_retrieval_route and route_research                    *)
(*                                                                         *)
(* A query is a sequence of words.  SignalsWithin names the signal         *)
(* keywords that occur as substrings of a (lower-case) word.               *)
(***************************************************************************)
freshness_signals == {"latest", "today", "current", "news", "recent"}

internal_signals == {"internal", "private", "policy", "playbook", "history"}

SignalsWithin(tok) ==
    CASE tok \in freshness_signals \cup internal_signals -> {tok}
      [] tok = "newsletter" -> {"news"}
      [] tok = "prehistory" -> {"history"}
      [] OTHER -> {}

\* any(k in query_lower for k in signals)
HasSignal(query_lower, signals) ==
    \E i \in 1..Len(query_lower) : SignalsWithin(query_lower[i]) \cap signals # {}

\* RetrievalRoute values
INTERNAL == "internal_kb"

EXTERNAL == "external_web"

HYBRID == "hybrid"

\* the branches 321-333 on the two flags and the two keyword tests
RouteOnSignals_KeywordsOnly(need_freshness, prefer_internal, has_freshness_signal, has_internal_signal) ==
    IF has_internal_signal /\ has_freshness_signal
    THEN <<HYBRID, "Query mixes internal-depth and external-freshness signals">>
    ELSE IF has_internal_signal
    THEN <<INTERNAL, "Internal/private knowledge signals detected">>
    ELSE IF has_freshness_signal
    THEN <<EXTERNAL, "Freshness/news signals detected">>
    ELSE <<HYBRID, "Default to hybrid retrieval for balanced depth and coverage">>

RouteOnSignals(need_freshness, prefer_internal, has_freshness_signal, has_internal_signal) ==
    IF prefer_internal /\ (~need_freshness /\ ~has_freshness_signal)
    THEN <<INTERNAL, "Explicit internal preference with no freshness requirement">>
    ELSE IF need_freshness /\ (~prefer_internal /\ ~has_internal_signal)
    THEN <<EXTERNAL, "Freshness required without private-knowledge dependency">>
    ELSE IF has_internal_signal /\ has_freshness_signal
    THEN <<HYBRID, "Query mixes internal-depth and external-freshness signals">>
    ELSE IF prefer_internal /\ need_freshness
    THEN <<HYBRID, "Both internal depth and external freshness are requested">>
    ELSE IF has_internal_signal
    THEN <<INTERNAL, "Internal/private knowledge signals detected">>
    ELSE IF has_freshness_signal
    THEN <<EXTERNAL, "Freshness/news signals detected">>
    ELSE <<HYBRID, "Default to hybrid retrieval for balanced depth and coverage">>

\* _decide_retrieval_route: <<route, reason>>
decide_retrieval_route(query, need_freshness, prefer_internal) ==
    RouteOnSignals(need_freshness, prefer_internal,
                   HasSignal(Lower(query), freshness_signals),
                   HasSignal(Lower(query), internal_signals))

\* tools.py 359-374
execution_plan(route) ==
    IF route = INTERNAL
    THEN <<"Call ALB_MCP tool(s) first for internal and historical depth",
           "Preserve citation/source fields from ALB response">>
    ELSE IF route = EXTERNAL
    THEN <<"Call tavily_search for external and latest context",
           "Use returned web citations in the draft">>
    ELSE <<"Call ALB_MCP tools for internal depth and private context",
           "Call tavily_search for latest external updates",
           "Merge evidence and keep citations from both channels">>

RoutePayload(decision) ==
    [status |-> "ok", route |-> decision[1], reason |-> decision[2],
     execution_plan |-> execution_plan(decision[1])]

\* route_research: the payload returned
route_research(query, need_freshness, prefer_internal) ==
    RoutePayload(decide_retrieval_route(query, need_freshness, prefer_internal))

QueryWords == {"x", "latest", "Latest", "newsletter", "policy", "internal", "prehistory"}

QueryInputs == SeqsUpTo(QueryWords, MaxQuery)

\* one call of the route_research tool
RouteResearch(query, need_freshness, prefer_internal) ==
    /\ out' = [op |-> "route_research", error |-> "none",
               val |-> route_research(query, need_freshness, prefer_internal),
               args |-> <<query, need_freshness, prefer_internal>>]
    /\ UNCHANGED <<mw, rt, scope, files, tracked, hist, ledger>>

InitRoute ==
    /\ rt = DefaultRuntime
    /\ InitRest

NextRoute ==
    \E query \in QueryInputs, need_freshness \in BOOLEAN, prefer_internal \in BOOLEAN :
        RouteResearch(query, need_freshness, prefer_internal)

SpecRoute == InitRoute /\ [][NextRoute]_vars

(***************************************************************************)
(* The tools specification: every core tool, called on stored missions     *)
(***************************************************************************)
\* the runtimes of the report specification and one whose user_id is no
\* safe id
ToolRuntimeInputs ==
    RuntimeInputs
        \cup { [ids |-> "present", user_id |-> <<"a", "/", "b">>, mission_id |-> <<"a">>,
                store |-> TRUE] }

EvidenceJsonInputs ==
    { EvidenceJson(e) : e \in RunInputs } \cup {BlankEvidenceJson}
        \cup MalformedEvidenceJson

ExistingJsonInputs ==
    { BlankJson, LedgerJson(LedgerA), [json |-> "empty_object", L |-> EmptyLedger] }
        \cup MalformedLedgerJson

\* the texts handed to persist_citation_ledger: two ledgers and the text a
\* failed build returned
PersistedJsonInputs ==
    { LedgerJson(LedgerA), LedgerJson(LedgerAB),
      build_citation_ledger_tool([json |-> "invalid", evidence |-> <<>>], BlankJson).text }

InitTools ==
    /\ rt \in ToolRuntimeInputs
    /\ \E m \in StoredInputs :
           /\ tracked = StorageOf(rt, m).state
           /\ files = StorageOf(rt, m).store
    /\ scope = NoScope
    /\ out = NoOut
    /\ hist = <<>>
    /\ ledger = EmptyLedger
    /\ mw = MiddlewareNew

\* one call of the mission_storage_manifest tool
Manifest ==
    /\ out' = [op |-> "manifest", error |-> "none",
               val |-> mission_storage_manifest(rt), args |-> <<>>]
    /\ UNCHANGED <<mw, rt, scope, files, tracked, hist, ledger>>

\* one call of the build_citation_ledger tool on JSON texts; out holds the
\* JSON object returned and the kinds of the two texts
BuildTool(evidence_json, existing_ledger_json) ==
    /\ \E b \in {build_citation_ledger_tool(evidence_json, existing_ledger_json)} :
           out' = [op |-> "build_tool", error |-> b.error, val |-> BuildObject(b),
                   args |-> <<evidence_json.json, existing_ledger_json.json,
                              Len(evidence_json.evidence)>>]
    /\ UNCHANGED <<mw, rt, scope, files, tracked, hist, ledger>>

\* one call of the persist_citation_ledger tool; out holds what was
\* returned, the text given, whether a JSON object or a sentence was
\* returned, and whether the backend was healthy
PersistLedger(ledger_json, fault) ==
    /\ \E r \in {persist_citation_ledger(rt, StoreNow, ledger_json, fault)} :
           /\ tracked' = r.st.state
           /\ files' = r.st.store
           /\ out' = [op |-> "persist_ledger",
                      error |-> IF r.kind = "object" THEN r.payload.error_type ELSE "none",
                      val |-> r.payload,
                      args |-> <<ledger_json, r.kind, fault = "none">>]
    /\ UNCHANGED <<mw, rt, scope, hist, ledger>>

\* one call of _upsert_text_file with the content the path already holds
UpsertSame(path) ==
    /\ Strip(StoredText(path)) # <<>>
    /\ \E r \in {upsert_text_file(rt, StoreNow, path, StoredText(path), "none")} :
           /\ tracked' = r.st.state
           /\ files' = r.st.store
           /\ out' = [op |-> "upsert_same", error |-> r.error, val |-> r.status,
                      args |-> <<path>>]
    /\ UNCHANGED <<mw, rt, scope, hist, ledger>>

NextTools ==
    \/ Manifest
    \/ \E e \in EvidenceJsonInputs, x \in ExistingJsonInputs : BuildTool(e, x)
    \/ \E j \in PersistedJsonInputs, f \in Faults : PersistLedger(j, f)
    \/ \E c \in ContentInputs, f \in DualFaults : PersistSourcesAppendix(c, f[1], f[2])
    \/ \E fl \in ToolFaults : Finalize(CitingBody, <<>>, fl)
    \/ \E fl \in ToolFaults : VerifyAndRepair(fl)
    \/ \E fl \in ToolFaults : Publish(CitingBody, <<>>, NoFaults, fl)
    \/ \E q \in {<<>>, <<"latest">>, <<"policy">>}, nf \in BOOLEAN, pi \in BOOLEAN :
           RouteResearch(q, nf, pi)
    \/ \E path \in {PUBLIC_FINAL_REPORT_PATH, PrivateReportPath} : UpsertSame(path)

SpecTools == InitTools /\ [][NextTools]_vars

(***************************************************************************)
(* Serialized ledger cycles of one mission: the caller reads the persisted *)
(* ledger, merges new evidence with build_citation_ledger and persists the *)
(* result, one cycle at a time                                             *)
(***************************************************************************)
\* the existing_ledger_json of a cycle: the persisted text when the read
\* gave one, otherwise none
CycleExisting(rd) ==
    IF rd.error = "none" /\ rd.text # <<>> THEN rd.text ELSE BlankJson

CycleBuild(evidence, r, st) ==
    build_citation_ledger_tool(EvidenceJson(evidence),
                               CycleExisting(read_text_file(r, st, LedgerPath, "none")))

\* one cycle; hist records the evidence submitted and out what
\* persist_citation_ledger returned
Cycle(evidence) ==
    /\ Len(hist) < MaxRuns
    /\ \E r \in {persist_citation_ledger(rt, StoreNow,
                                          CycleBuild(evidence, rt, StoreNow).text, "none")} :
           /\ tracked' = r.st.state
           /\ files' = r.st.store
           /\ out' = [op |-> "cycle",
                      error |-> IF r.kind = "object" THEN r.payload.error_type ELSE "none",
                      val |-> r.payload, args |-> <<r.kind>>]
    /\ hist' = Append(hist, [evidence |-> evidence])
    /\ UNCHANGED <<mw, rt, scope, ledger>>

NextCycles == \E evidence \in RunInputs : Cycle(evidence)

SpecCycles == InitStore /\ [][NextCycles]_vars

(***************************************************************************)
(* Ledger claims                                                           *)
(***************************************************************************)
CitationIds(L) == {L.sources[i].citation_id : i \in 1..Len(L.sources)}

UniqueIds(L) ==
    \A i \in 1..Len(L.sources), j \in 1..Len(L.sources) :
        i # j => L.sources[i].citation_id # L.sources[j].citation_id

\* the source at position i of the prior ledger is the same source, at the
\* same position and under the same id, in the next ledger
KeptInPlace(i) ==
    /\ i <= Len(ledger'.sources)
    /\ ledger'.sources[i].citation_id = ledger.sources[i].citation_id
    /\ ledger'.sources[i].channel = ledger.sources[i].channel
    /\ ledger'.sources[i].title = ledger.sources[i].title
    /\ ledger'.sources[i].url = ledger.sources[i].url
    /\ ledger'.sources[i].raw_citation = ledger.sources[i].raw_citation

\* C8: a merge given the prior ledger keeps every source at its position
\* with its citation_id, and no citation_id is held by two sources.
C8_IdsStableAndNeverReused ==
    /\ [](UniqueIds(ledger))
    /\ [][\A i \in 1..Len(ledger.sources) : KeptInPlace(i)]_vars

\* a merge added a source to a ledger that already held four
C8_Witness ==
    /\ out.op = "build_batch"
    /\ out.val.prior = 4
    /\ Len(ledger.sources) = 5

\* the number of sources of the channel among the first i sources
RankInChannel(L, i) ==
    Cardinality({j \in 1..i : L.sources[j].channel = L.sources[i].channel})

\* C9: in every ledger built from the empty one, the i-th source of a
\* channel, in order of first appearance, has the id WEB-i (web) or MCP-i
\* (internal), whatever the interleaving of the channels in the evidence.
C9_PerChannelGaplessNumbering ==
    \A i \in 1..Len(ledger.sources) :
        ledger.sources[i].citation_id =
            << IF ledger.sources[i].channel = "web" THEN "WEB" ELSE "MCP",
               "-", RankInChannel(ledger, i) >>

\* three web and two internal sources merged in one call into the empty
\* ledger, an internal one first and a web one last
C9_Witness ==
    /\ out.op = "build_batch"
    /\ out.val.prior = 0
    /\ Len(ledger.sources) = 5
    /\ ledger.sources[1].channel = "alb_mcp"
    /\ ledger.sources[2].channel = "web"
    /\ ledger.sources[5].channel = "web"
    /\ CitationIds(ledger) = { <<"WEB", "-", 1>>, <<"WEB", "-", 2>>, <<"WEB", "-", 3>>,
                               <<"MCP", "-", 1>>, <<"MCP", "-", 2>> }

\* the snippet of the first submission of a source that was submitted once:
\* its only snippet, or the empty snippet when none was recorded
FirstSnippet(source) == IF source.snippets = <<>> THEN <<>> ELSE source.snippets[1]

\* this step submits, alone, the record of the only source of the prior
\* ledger (same channel, title, url and raw_citation), which had been
\* submitted once
Resubmits ==
    /\ out'.op = "build"
    /\ out'.val = [n |-> 1, prior |-> 1]
    /\ Len(ledger.sources[1].snippets) <= 1
    /\ ledger.sources[1].channel = out'.args[1].channel
    /\ ledger.sources[1].title = out'.args[1].title
    /\ ledger.sources[1].url = out'.args[1].url
    /\ ledger.sources[1].raw_citation = out'.args[1].raw_citation

\* one entry, the same but for its snippets
SameSingleEntry ==
    /\ Len(ledger'.sources) = 1
    /\ KeptInPlace(1)
    /\ ledger'.by_fingerprint = ledger.by_fingerprint

\* C10 as stated: the same record submitted in two calls yields one entry
\* with unchanged citation_id, holding two snippets when the two snippets
\* differ and one when they are identical.
C10_ResubmitTwoOrOneSnippets ==
    [][Resubmits =>
         /\ SameSingleEntry
         /\ Len(ledger'.sources[1].snippets) =
                IF out'.args[1].snippet # FirstSnippet(ledger.sources[1]) THEN 2 ELSE 1]_vars

\* C10 amended: the same record submitted in two calls yields one entry
\* with unchanged citation_id whose snippets are the distinct non-empty
\* snippets of the two records in submission order: two when both are
\* non-empty and differ, one when they are identical and non-empty or when
\* only one is non-empty, none when both are empty; nothing else in the
\* entry changes.
C10_ResubmitKeepsDistinctNonEmptySnippets ==
    [][Resubmits =>
         LET x == FirstSnippet(ledger.sources[1])
             y == out'.args[1].snippet
         IN  /\ SameSingleEntry
             /\ ledger'.sources[1].snippets =
                    IF y = <<>> \/ y = x THEN ledger.sources[1].snippets
                    ELSE Append(ledger.sources[1].snippets, y)
             /\ Len(ledger'.sources[1].snippets) = Cardinality({x, y} \ {<<>>})]_vars

\* the record was resubmitted with another snippet: the entry holds both
C10_Witness ==
    /\ out.op = "build"
    /\ out.val = [n |-> 1, prior |-> 1]
    /\ Len(ledger.sources) = 1
    /\ ledger.sources[1].title = out.args[1].title
    /\ ledger.sources[1].url = out.args[1].url
    /\ ledger.sources[1].snippets = << <<"s1">>, <<"s2">> >>
    /\ out.args[1].snippet = <<"s2">>

\* the entries of a section's list, as a set
SectionIds(L, s) ==
    IF s \in DOMAIN L.section_map
    THEN {L.section_map[s][i] : i \in 1..Len(L.section_map[s])}
    ELSE {}

\* the ids of the sources of L that an evidence item refers to: same
\* normalised channel, same title up to case and surrounding blanks, same
\* URL up to the fragment, same raw citation
IdsOfItem(L, item) ==
    { L.sources[i].citation_id : i \in
        { j \in 1..Len(L.sources) :
            /\ L.sources[j].channel = normalize_source_channel(item.channel)
            /\ Lower(Strip(L.sources[j].title)) = Lower(Strip(item.title))
            /\ L.sources[j].url = canonicalize_url(item.url)
            /\ Strip(L.sources[j].raw_citation) = Strip(item.raw_citation) } }

\* the ids referred to by the items of section s in an evidence list
IdsOfSection(L, evidence, s) ==
    UNION { IdsOfItem(L, evidence[i]) :
              i \in {j \in 1..Len(evidence) : evidence[j].section = s} }

Sections == {"Intro", "Analysis", "General"}

\* C11: section_map[s] lists a citation_id at most once and only ids of
\* sources; every merge adds to section_map[s] exactly the ids of the
\* sources that the evidence items of section s refer to (so after any
\* sequence of merges it holds exactly the ids referenced from s), and a
\* source referenced from two sections is listed in both under its one id.
C11_SectionMapExact ==
    /\ \A s \in DOMAIN ledger.section_map :
           /\ Cardinality(SectionIds(ledger, s)) = Len(ledger.section_map[s])
           /\ SectionIds(ledger, s) \subseteq CitationIds(ledger)
    /\ \A i \in 1..Len(hist) :
           /\ \A s \in Sections :
                  SectionIds(hist[i].result, s) =
                      SectionIds(hist[i].prior, s)
                          \cup IdsOfSection(hist[i].result, hist[i].evidence, s)
           /\ \A k \in 1..Len(hist[i].evidence) :
                  Cardinality(IdsOfItem(hist[i].result, hist[i].evidence[k])) = 1

\* two submissions, one per section, with one shared source and one source
\* of their own each: three sources, two ids per section, one id in both
C11_Witness ==
    /\ Len(hist) = 2
    /\ Len(hist[1].evidence) = 2
    /\ Len(hist[2].evidence) = 2
    /\ \A i \in 1..2 : hist[1].evidence[i].section = "Intro"
    /\ \A i \in 1..2 : hist[2].evidence[i].section = "Analysis"
    /\ hist[2].prior = hist[1].result
    /\ Len(ledger.sources) = 3
    /\ Cardinality(SectionIds(ledger, "Intro")) = 2
    /\ Cardinality(SectionIds(ledger, "Analysis")) = 2
    /\ Cardinality(SectionIds(ledger, "Intro") \cap SectionIds(ledger, "Analysis")) = 1

RECURSIVE ListedFrom(_, _, _)
ListedFrom(L, section, i) ==
    IF i > Len(L.sources) THEN <<>>
    ELSE IF section = "" \/ L.sources[i].citation_id \in SectionIds(L, section)
    THEN <<i>> \o ListedFrom(L, section, i + 1)
    ELSE ListedFrom(L, section, i + 1)

\* the position of the first "]" of a line, 0 when there is none
RECURSIVE CloseAt(_, _)
CloseAt(line, i) ==
    IF i > Len(line) THEN 0 ELSE IF line[i] = "]" THEN i ELSE CloseAt(line, i + 1)

\* the line reads "[id] (channel) title: url" followed by what the source
\* carries as raw citation
LineShows(line, source) ==
    /\ Len(line) > 4
    /\ line[1] = "["
    /\ CloseAt(line, 1) > 2
    /\ SubSeq(line, 2, CloseAt(line, 1) - 1) = CitationIdText(source.citation_id)
    /\ SubSeq(line, CloseAt(line, 1) + 1, Len(line)) =
           <<" ", "(", source.channel, ")", " ">> \o source.title \o <<":", " ">>
               \o source.url
               \o (IF source.raw_citation = <<>> THEN <<>>
                   ELSE <<" | raw_citation=">> \o source.raw_citation)

\* C13: the rendering of a ledger starts with the line "### Sources"; its
\* further lines show, in ledger order and under their ledger ids, exactly
\* the sources whose id is in the section's index when a section is given
\* and all sources when none is given; the single line "(No sources)"
\* follows the heading exactly when no source is shown.
C13_RenderListsSectionSources ==
    (out.op = "render" /\ out.args[1] = "ledger") =>
        LET lines == splitlines(out.val)
            listed == ListedFrom(ledger, out.args[2], 1)
        IN  /\ Len(lines) >= 2
            /\ lines[1] = <<"### Sources">>
            /\ IF listed = <<>>
               THEN lines = << <<"### Sources">>, <<"(No sources)">> >>
               ELSE /\ Len(lines) = 1 + Len(listed)
                    /\ \A k \in 1..Len(listed) :
                          LineShows(lines[k + 1], ledger.sources[listed[k]])

\* a ledger of three sources rendered for a section that uses the first
\* and the third: two lines, WEB-1 and WEB-2, the internal source left out
C13_Witness ==
    /\ out.op = "render"
    /\ out.args = <<"ledger", "Intro">>
    /\ Len(ledger.sources) = 3
    /\ ListedFrom(ledger, "Intro", 1) = <<1, 3>>
    /\ Len(splitlines(out.val)) = 3

\* C14: render_sources_from_ledger raises for no ledger input, and for a
\* text that is no JSON or a JSON value that is no ledger (a list, an
\* object without ledger keys, an object whose sources is no list) it
\* returns three lines: the sources heading, a warning line and
\* "(No sources)".
C14_MalformedLedgerRendersWarning ==
    out.op = "render" =>
        /\ out.error = "none"
        /\ out.args[1] \in {"invalid", "array", "error_payload", "sources_number"} =>
               LET lines == splitlines(out.val)
               IN  /\ Len(lines) = 3
                   /\ lines[1] = <<"### Sources">>
                   /\ lines[2][1] = "[WARN] render_sources_from_ledger degraded: "
                   /\ lines[3] = <<"(No sources)">>

(***************************************************************************)
(* Report claims                                                           *)
(***************************************************************************)
HealthyFinalize == out.op = "finalize" /\ rt.ids = "present" /\ out.args[4]

HealthyVerify == out.op = "verify" /\ rt.ids = "present" /\ out.args[1]

ComposedAsStated(body, appendix) ==
    IF Strip(appendix) # <<>> THEN RStrip(body) \o Separator \o Strip(appendix)
    ELSE RStrip(body) \o <<"\n">>

\* C16: after finalize_mission_report on a healthy backend the private and
\* the public final report path both hold the body without trailing
\* whitespace followed by the separator and the trimmed appendix, or, when
\* the appendix is empty after trimming, followed by one newline.
C16_ComposedReportIsWritten ==
    HealthyFinalize =>
        /\ out.val.status = "ok"
        /\ \A path \in {PrivateReportPath, PUBLIC_FINAL_REPORT_PATH} :
               IF Strip(out.args[2]) # <<>>
               THEN /\ IsPrefix(ComposedAsStated(out.args[1], out.args[2]), StoredText(path))
                    /\ Strip(StoredText(path)) = ComposedAsStated(out.args[1], out.args[2])
               ELSE StoredText(path) = ComposedAsStated(out.args[1], out.args[2])

\* the report the gate evaluates: the public one unless it is blank
ReportNow ==
    IF Strip(StoredText(PUBLIC_FINAL_REPORT_PATH)) # <<>>
    THEN StoredText(PUBLIC_FINAL_REPORT_PATH)
    ELSE StoredText(PrivateReportPath)

\* a line of the document is the heading "### Sources" or "## Sources"
HeadingPresent(doc) == HeadingLineFrom(splitlines(doc), 1) # 0

\* every inline marker of the document appears after its sources heading
Covered(doc) ==
    /\ HeadingPresent(doc)
    /\ extract_inline_citation_ids(doc) \subseteq extract_sources_section_ids(doc)

\* C17: on a stored report the gate returns pass exactly when the final
\* document has a sources heading and all its inline markers appear after
\* that heading, and otherwise fail with exactly the unmatched ids.
C17_PassIffCovered ==
    (HealthyVerify /\ Strip(ReportNow) # <<>>) =>
        /\ out.val.status \in {"pass", "fail"}
        /\ (out.val.status = "pass") <=> Covered(ReportNow)
        /\ out.val.status = "fail" =>
               out.val.unmatched_inline_citations =
                   extract_inline_citation_ids(ReportNow)
                       \ extract_sources_section_ids(ReportNow)

\* this step is a gate call, for a runtime with tenant ids and on a healthy
\* backend, that finds a report
VerifiesReport ==
    /\ out'.op = "verify"
    /\ rt.ids = "present"
    /\ out'.args[1]
    /\ Strip(ReportNow) # <<>>

\* C18: the gate run on a report that already passes returns status pass
\* and repaired false and leaves both scopes of the storage unchanged.
C18_PassingReportUntouched ==
    [][(VerifiesReport /\ Covered(ReportNow)) =>
          /\ out'.val.status = "pass"
          /\ out'.val.repaired = FALSE
          /\ tracked' = tracked
          /\ files' = files]_vars

StoredLedgerIds ==
    IF StoredText(LedgerPath) = <<>> THEN {}
    ELSE {CitationIdText(id) : id \in CitationIds(StoredText(LedgerPath).L)}

\* C20: when the report has no sources heading and the persisted ledger
\* holds every id the body cites, one gate call returns pass with repaired
\* true and leaves a public report with a "### Sources" line after which
\* all those ids are listed.
C20_MissingSectionRepaired ==
    [][(/\ VerifiesReport
        /\ ~HeadingPresent(ReportNow)
        /\ extract_inline_citation_ids(ReportNow) \subseteq StoredLedgerIds) =>
          /\ out'.val.status = "pass"
          /\ out'.val.repaired = TRUE
          /\ \E i \in 1..Len(splitlines(StoredText(PUBLIC_FINAL_REPORT_PATH)')) :
                 splitlines(StoredText(PUBLIC_FINAL_REPORT_PATH)')[i] = <<"### Sources">>
          /\ extract_inline_citation_ids(ReportNow)
                 \subseteq extract_sources_section_ids(StoredText(PUBLIC_FINAL_REPORT_PATH)')]_vars

\* C21: when the report has a sources heading but its sources section omits
\* an id the body cites, one gate call on a healthy backend appends the
\* sources section rendered from the whole persisted ledger (repaired true);
\* the result is pass when the ledger holds every cited id, and otherwise
\* fail with exactly the cited ids absent from the ledger as unmatched.
C21_PartialSectionRepairedFromLedger ==
    [][(/\ VerifiesReport
        /\ HeadingPresent(ReportNow)
        /\ ~Covered(ReportNow)) =>
          /\ out'.val.status \in {"pass", "fail"}
          /\ out'.val.repaired = TRUE
          /\ StoredText(PUBLIC_FINAL_REPORT_PATH)'
                 = Repaired(ReportNow,
                            render_sources_from_ledger(StoredText(LedgerPath), ""))
          /\ (out'.val.status = "pass")
                 <=> (extract_inline_citation_ids(ReportNow) \subseteq StoredLedgerIds)
          /\ out'.val.status = "fail" =>
                 out'.val.unmatched_inline_citations
                     = extract_inline_citation_ids(ReportNow) \ StoredLedgerIds]_vars

\* the texts a gate call can hand to publish: a passing verdict, a failing
\* one, the verdict for a missing report, an error payload, and a text that
\* is no JSON
GateTexts ==
    { GateJson(GateResult(PassingReport, FALSE, "none", StoreNow).payload),
      GateJson(GateResult(PartialReport, TRUE, "sources section missing citation ids",
                          StoreNow).payload),
      GateJson([status |-> "fail", reason |-> "final report is empty or missing",
                final_report_path |-> PUBLIC_FINAL_REPORT_PATH]),
      GateJson(safe_tool_error("verify_and_repair_final_report", "ValueError")),
      [json |-> "invalid", payload |-> <<>>] }

PassedGate(verify_result) ==
    /\ verify_result.json = "object"
    /\ "status" \in DOMAIN verify_result.payload
    /\ verify_result.payload.status = "pass"

\* the decision fields of a publish payload agree with the gate's verdict
DecidedByGate(payload, verify_result) ==
    IF PassedGate(verify_result)
    THEN payload.status = "pass" /\ payload.next_action = "complete"
    ELSE payload.status = "fail" /\ payload.next_action = "repair_and_retry_publish"

\* C22: publish_final_report reports pass and next_action complete only
\* when the gate run in the same call returned pass, and fail with
\* next_action repair_and_retry_publish for a failing gate, a gate error and
\* an unparseable gate result.
C22_PublishPassOnlyOnGatePass ==
    out.op = "publish" =>
        /\ DecidedByGate(out.val, out.val.verify)
        /\ \A v \in GateTexts : DecidedByGate(PublishPayload(out.val.finalize, v), v)

\* a publish call whose gate call ended in an error payload and which
\* reported fail, while a passing verdict would have been reported as pass
C22_Witness ==
    /\ out.op = "publish"
    /\ out.val.verify.payload.status = "error"
    /\ out.val.status = "fail"
    /\ out.val.next_action = "repair_and_retry_publish"
    /\ \E v \in GateTexts :
           PassedGate(v) /\ PublishPayload(out.val.finalize, v).next_action = "complete"

(***************************************************************************)
(* Routing claims                                                          *)
(***************************************************************************)
\* the last call was route_research
Routed == out.op = "route_research"

\* the signals of the routed call: flags and keywords in the query
InternalFlag == out.args[3]

FreshnessFlag == out.args[2]

InternalKeyword == HasSignal(Lower(out.args[1]), internal_signals)

FreshnessKeyword == HasSignal(Lower(out.args[1]), freshness_signals)

\* C23: whenever an internal signal (the prefer_internal flag or an
\* internal keyword) and a freshness signal (the need_freshness flag or a
\* freshness keyword) are both present, the route is hybrid.
C23_BothSignalsGiveHybrid ==
    (/\ Routed
     /\ InternalFlag \/ InternalKeyword
     /\ FreshnessFlag \/ FreshnessKeyword) => out.val.route = HYBRID

\* C24: route_research always returns status ok with exactly one of the
\* three routes: internal for prefer_internal with no freshness flag or
\* keyword, external for need_freshness with no internal flag or keyword,
\* without flags internal for a lone internal keyword and external for a
\* lone freshness keyword, hybrid without any flag or keyword; the payload
\* carries the execution plan of that route and nothing retrieved.
C24_RouteTotalAndPlanned ==
    Routed =>
        /\ out.val.status = "ok"
        /\ out.val.route \in {INTERNAL, EXTERNAL, HYBRID}
        /\ (InternalFlag /\ ~FreshnessFlag /\ ~FreshnessKeyword)
               => out.val.route = INTERNAL
        /\ (FreshnessFlag /\ ~InternalFlag /\ ~InternalKeyword)
               => out.val.route = EXTERNAL
        /\ (~InternalFlag /\ ~FreshnessFlag /\ InternalKeyword /\ ~FreshnessKeyword)
               => out.val.route = INTERNAL
        /\ (~InternalFlag /\ ~FreshnessFlag /\ ~InternalKeyword /\ FreshnessKeyword)
               => out.val.route = EXTERNAL
        /\ (~InternalFlag /\ ~FreshnessFlag /\ ~InternalKeyword /\ ~FreshnessKeyword)
               => out.val.route = HYBRID
        /\ out.val.execution_plan = execution_plan(out.val.route)
        /\ Len(out.val.execution_plan) = IF out.val.route = HYBRID THEN 3 ELSE 2
        /\ DOMAIN out.val = {"status", "route", "reason", "execution_plan"}

\* prefer_internal set, no freshness flag, and a query whose only keyword is
\* an internal one inside a longer word: routed internal with the two-step
\* internal plan
C24_Witness ==
    /\ Routed
    /\ out.args = << <<"x", "prehistory">>, FALSE, TRUE >>
    /\ out.val.route = INTERNAL
    /\ out.val.execution_plan[1]
           = "Call ALB_MCP tool(s) first for internal and historical depth"

(***************************************************************************)
(* Backend and envelope claims                                             *)
(***************************************************************************)
\* paths inside and outside the tenant memory root of user a
RoutedPaths ==
    { PrivateReportPath, LedgerPath, PUBLIC_FINAL_REPORT_PATH,
      <<"/", "memories", "/", "users", "/", "b", "/", "profile", "/", "preferences.json">>,
      <<"/", "memories", "/", "users", "/", "a">> }

UnderTenantRoot(r, path) ==
    IsPrefix(<<"/", "memories", "/", "users", "/">> \o r.user_id \o <<"/">>, path)

\* C25: for a runtime with valid tenant ids create_tenant_backend returns a
\* backend that serves the paths under /memories/users/{user_id}/ from the
\* store scope when runtime.store is set, and every other path, and every
\* path when runtime.store is None, from the state scope.
C25_BackendRoutesTenantRoot ==
    rt.ids = "present" =>
        /\ create_tenant_backend(rt).error = "none"
        /\ \A path \in RoutedPaths :
               RouteOf(create_tenant_backend(rt), path)
                   = IF rt.store /\ UnderTenantRoot(rt, path) THEN "store" ELSE "state"

\* the operations of the tools specification that are core tools, and the
\* name each reports in its error payload
ToolName ==
    [manifest |-> "mission_storage_manifest",
     build_tool |-> "build_citation_ledger",
     persist_ledger |-> "persist_citation_ledger",
     persist_sources_appendix |-> "persist_sources_appendix",
     finalize |-> "finalize_mission_report",
     verify |-> "verify_and_repair_final_report",
     publish |-> "publish_final_report",
     route_research |-> "route_research"]

CoreToolCalled == out.op \in DOMAIN ToolName

\* the last call returned a JSON object (persist_citation_ledger may return
\* a sentence instead)
ReturnedObject == out.op = "persist_ledger" => out.args[2] = "object"

\* C26: every core tool returns, on success and on failure, a JSON object
\* whose status field is one of ok, error, pass, fail.
C26_EveryToolReturnsStatus ==
    CoreToolCalled =>
        /\ ReturnedObject
        /\ "status" \in DOMAIN out.val
        /\ out.val.status \in {"ok", "error", "pass", "fail"}

\* the tools that need the tenant ids, and those that reach the storage
IdTools == {"manifest", "persist_ledger", "persist_sources_appendix", "finalize", "verify"}

StorageTools == IdTools \ {"manifest"}

\* the last call met a failure: tenant ids missing or invalid, a backend
\* that cannot be used, or a JSON input the tool cannot work with
IdsFailed == out.op \in IdTools /\ get_path_manager_from_runtime(rt).error # "none"

BackendFailed == out.op \in StorageTools /\ create_tenant_backend(rt).error # "none"

JsonFailed ==
    /\ out.op = "build_tool"
    /\ \/ out.args[1] \in {"invalid", "array"}
       \/ out.args[2] \in {"invalid", "array", "sources_number"}
       \/ out.args[2] \in {"error_payload", "empty_object"} /\ out.args[3] > 0

\* a payload of the shape _safe_tool_error gives for the tool
StructuredError(payload, tool) ==
    /\ {"status", "tool", "error_type", "message"} \subseteq DOMAIN payload
    /\ payload.status = "error"
    /\ payload.tool = tool

PersistedLedger ==
    IF StoredText(LedgerPath) = <<>> THEN EmptyLedger ELSE StoredText(LedgerPath).L

FingerprintOf(item) ==
    stable_source_fingerprint(normalize_source_channel(item.channel), item.title,
                              item.url, item.raw_citation)

\* the fingerprints of all evidence submitted by the cycles so far
Submitted ==
    UNION { { FingerprintOf(hist[i].evidence[k]) : k \in 1..Len(hist[i].evidence) } :
              i \in 1..Len(hist) }

\* C28: after any number of serialized read, build, persist cycles of a
\* mission with tenant ids, the persisted ledger holds exactly one source
\* for every distinct fingerprint submitted so far, and no two of its
\* sources share a citation_id.
C28_SerializedCyclesKeepOneSourceEach ==
    rt.ids = "present" =>
        /\ DOMAIN PersistedLedger.by_fingerprint = Submitted
        /\ Len(PersistedLedger.sources) = Cardinality(Submitted)
        /\ UniqueIds(PersistedLedger)

\* the last call was persist_citation_ledger for a runtime with valid
\* tenant ids on a healthy backend
HealthyPersistLedger ==
    /\ out.op = "persist_ledger"
    /\ get_path_manager_from_runtime(rt).error = "none"
    /\ out.args[3]

WritingUpsert ==
    /\ out'.op = "upsert"
    /\ rt.ids = "present"
    /\ out'.args[4] = "none"
    /\ ~(out'.args[3].present /\ out'.args[3].content = out'.args[2])

FaultMet ==
    \/ out'.args[4] = "download"
    \/ out'.args[4] = "write" /\ ~out'.args[3].present
    \/ /\ out'.args[4] = "edit"
       /\ out'.args[3].present
       /\ out'.args[3].content # out'.args[2]

HealthyGateStep ==
    /\ out'.op = "verify"
    /\ rt.ids = "present"
    /\ out'.args[1]

\* tools.py 761-765: the sources section the gate renders from the storage
RenderedNow ==
    IF StoredText(LedgerPath) # <<>>
    THEN render_sources_from_ledger(StoredText(LedgerPath), "")
    ELSE <<"### Sources", "\n", "(No sources)">>

\* tools.py 767-778: the gate repairs the document
NeedsRepair(doc) ==
    \/ ~has_sources_section(doc)
    \/ extract_inline_citation_ids(doc) \ extract_sources_section_ids(doc) # {}

\* this step's verdict is the verdict on doc: no repair and pass when doc
\* needs none, and otherwise a repair that stores doc with the rendered
\* section appended
EvaluatedOn(doc) ==
    /\ out'.val.status \in {"pass", "fail"}
    /\ "repaired" \in DOMAIN out'.val
    /\ IF NeedsRepair(doc)
       THEN /\ out'.val.repaired = TRUE
            /\ StoredText(PUBLIC_FINAL_REPORT_PATH)' = Repaired(doc, RenderedNow)
       ELSE /\ out'.val.repaired = FALSE
            /\ out'.val.status = "pass"
            /\ tracked' = tracked /\ files' = files

\* C33: the gate evaluates the public report when it is not blank, the
\* private report only when the public one is blank, and when both are
\* blank or absent returns fail with the missing-report reason and writes
\* nothing.
C33_PublicFirstThenPrivateElseMissing ==
    [][HealthyGateStep =>
          IF Strip(StoredText(PUBLIC_FINAL_REPORT_PATH)) # <<>>
          THEN EvaluatedOn(StoredText(PUBLIC_FINAL_REPORT_PATH))
          ELSE IF Strip(StoredText(PrivateReportPath)) # <<>>
          THEN EvaluatedOn(StoredText(PrivateReportPath))
          ELSE /\ out'.val.status = "fail"
               /\ "reason" \in DOMAIN out'.val
               /\ out'.val.reason = "final report is empty or missing"
               /\ tracked' = tracked /\ files' = files]_vars

LineInputs ==
    { <<"### Sources">>,
      <<" ", "## Sources">>,
      <<"#### Sources">>,
      <<"see", " ", "## Sources", " ", "below">>,
      <<"[", "WEB", "-", "1", "]">>,
      <<"text">> }

DocInputs == { JoinLines(lines) : lines \in SeqsUpTo(LineInputs, MaxLines) }

\* tools.py 754-759: the three scans the gate makes of one document
Scan(doc) ==
    /\ out' = [op |-> "scan", error |-> "none",
               val |-> [has_sources |-> has_sources_section(doc),
                        inline_ids |-> extract_inline_citation_ids(doc),
                        section_ids |-> extract_sources_section_ids(doc)],
               args |-> <<doc>>]
    /\ UNCHANGED <<mw, rt, scope, files, tracked, hist, ledger>>

NextScan == \E doc \in DocInputs : Scan(doc)

SpecScan == InitPath /\ [][NextScan]_vars

\* the markers of the lines strictly after line idx
MarkersAfterLine(lines, idx) ==
    FindMarkers(JoinLines(SubSeq(lines, idx + 1, Len(lines))), 1)

\* C35: the presence test answers true exactly when a line of the document
\* is the heading "### Sources" or "## Sources" in any case, and then the
\* section ids are the markers strictly after the first such line.
C35_PresenceAndExtractionAgree ==
    out.op = "scan" =>
        /\ out.val.has_sources <=> HeadingPresent(out.args[1])
        /\ out.val.has_sources =>
               /\ HeadingLineFrom(splitlines(out.args[1]), 1) # 0
               /\ out.val.section_ids
                      = MarkersAfterLine(splitlines(out.args[1]),
                                         HeadingLineFrom(splitlines(out.args[1]), 1))

(***************************************************************************)
(* Sources whose URLs differ in one component                              *)
(***************************************************************************)
\* a URL, the same with two fragments, with a query, with an empty query,
\* with an empty query and a fragment, with another path, and two paths
\* that differ in a tab character
UrlInputs ==
    { <<"u1">>, <<"u1", "#f">>, <<"u1", "#g">>, <<"u1", "?q">>, <<"u1", "?">>,
      <<"u1", "?", "#f">>, <<"u2">>, <<"u1", "/a", "b">>, <<"u1", "/a", "\t", "b">> }

\* evidence items that agree on channel, title and raw_citation
UrlItem(url) == Item("web", <<"t">>, url, "Intro", <<>>, <<"s1">>)

UrlFingerprint(url) == stable_source_fingerprint("web", <<"t">>, url, <<>>)

\* build_citation_ledger on two such items and the caller's ledger; out
\* records the two URLs and the citation ids the items were given
BuildUrls(a, b) ==
    /\ ledger' = build_citation_ledger(<<UrlItem(a), UrlItem(b)>>, ledger)
    /\ out' = [op |-> "build_urls", error |-> "none",
               val |-> [first |-> ledger'.by_fingerprint[UrlFingerprint(a)],
                        second |-> ledger'.by_fingerprint[UrlFingerprint(b)]],
               args |-> <<a, b>>]
    /\ UNCHANGED <<mw, rt, scope, files, tracked, hist>>

NextUrls == \E a \in UrlInputs, b \in UrlInputs : BuildUrls(a, b)

SpecUrls == InitLedger /\ [][NextUrls]_vars

\* the sources of the ledger that carry the citation id
EntriesOf(id) == { i \in 1..Len(ledger.sources) : ledger.sources[i].citation_id = id }

UrlKey(u) ==
    LET kept == SelectSeq(DropFragment(u), LAMBDA tok : tok \notin {"\t", "\n"})
    IN  IF kept # <<>> /\ kept[Len(kept)] = "?" THEN SubSeq(kept, 1, Len(kept) - 1)
        ELSE kept

Values(f) == { f[k] : k \in DOMAIN f }

\* C37: after any sequence of merges from the empty ledger the citation ids
\* of the sources are pairwise distinct, every value of by_fingerprint is
\* the citation id of exactly one source, and every id listed in the
\* section map is the citation id of a source.
C37_LedgerIndexesAgree ==
    /\ \A i \in 1..Len(ledger.sources), j \in 1..Len(ledger.sources) :
           i # j => ledger.sources[i].citation_id # ledger.sources[j].citation_id
    /\ \A id \in Values(ledger.by_fingerprint) : Cardinality(EntriesOf(id)) = 1
    /\ \A section \in DOMAIN ledger.section_map :
           \A k \in 1..Len(ledger.section_map[section]) :
               EntriesOf(ledger.section_map[section][k]) # {}

\* C37 witness: a later merge left a ledger of three sources of both
\* channels that two sections refer to
C37_Witness ==
    /\ out.op = "build"
    /\ out.val.prior > 0
    /\ Len(ledger.sources) = 3
    /\ Cardinality(Values(ledger.by_fingerprint)) = 3
    /\ \E i \in 1..3 : ledger.sources[i].citation_id[1] = "MCP"
    /\ Cardinality(DOMAIN ledger.section_map) = 2

ConfigInputs ==
    { [ids |-> "present", user_id |-> <<"a">>, mission_id |-> <<"a">>],
      [ids |-> "present", user_id |-> <<"b">>, mission_id |-> <<"a">>],
      [ids |-> "missing", user_id |-> <<>>, mission_id |-> <<>>] }

\* the keywords _path_manager_from_config passes to MemoryPathManager
MiddlewareKwargs(user_id, mission_id) ==
    [user_id |-> user_id, mission_id |-> mission_id]

PathManagerFromIds(ids) ==
    IF ids.error # "none" THEN [error |-> ids.error, pm |-> NoScope]
    ELSE PathManagerFor(ids, MemoryPathManagerNew(MiddlewareKwargs(ids.user_id,
                                                                   ids.mission_id)))

\* _path_manager_from_config(config): [error, pm]
path_manager_from_config(config) == PathManagerFromIds(require_tenant_ids(config))

\* the sources list before_agent assigns for a path manager
SourcesOf(pm) == << PathStr(user_profile_preferences(pm)) >>

\* invocation i after its next statement of before_agent: line 31 derives
\* the path manager or raises, line 32 assigns self.sources, line 33 runs
\* the inherited before_agent, which loads the files self.sources names
AfterStatement(v, made) ==
    CASE v.pc = "called" ->
             IF made.error # "none"
             THEN [v EXCEPT !.pc = "raised", !.error = made.error]
             ELSE [v EXCEPT !.pc = "derived", !.path_manager = made.pm]
      [] v.pc = "derived" -> [v EXCEPT !.pc = "assigned"]
      [] v.pc = "assigned" -> [v EXCEPT !.pc = "returned", !.loaded = mw.sources]

\* the agent calls before_agent(state, runtime, config) for invocation i
Invoke(i, config) ==
    /\ mw.inv[i].pc = "idle"
    /\ mw' = [mw EXCEPT !.inv[i] = [@ EXCEPT !.pc = "called", !.config = config]]
    /\ UNCHANGED <<rt, scope, out, files, tracked, hist, ledger>>

\* invocation i executes its next statement of before_agent
Advance(i) ==
    /\ mw.inv[i].pc \in {"called", "derived", "assigned"}
    /\ mw' = [sources |-> IF mw.inv[i].pc = "derived"
                          THEN SourcesOf(mw.inv[i].path_manager)
                          ELSE mw.sources,
              inv |-> [mw.inv EXCEPT ![i] =
                          AfterStatement(@, path_manager_from_config(@.config))]]
    /\ UNCHANGED <<rt, scope, out, files, tracked, hist, ledger>>

NextMemory ==
    \/ \E i \in 1..MaxInvocations, config \in ConfigInputs : Invoke(i, config)
    \/ \E i \in 1..MaxInvocations : Advance(i)

SpecMemory == InitPath /\ [][NextMemory]_vars

\* the profile preferences path of the user of a config
OwnPreferences(config) ==
    <<"/", "memories", "/", "users", "/">> \o config.user_id
        \o <<"/", "profile", "/", "preferences.json">>

\* C40: every invocation whose config carries tenant ids and whose
\* before_agent call has ended returned normally, and the memory sources
\* loaded for it are exactly its own user's profile preferences path,
\* whatever other invocations did in between.
C40_EachInvocationLoadsOwnPreferences ==
    \A i \in 1..MaxInvocations :
        (mw.inv[i].pc \in {"raised", "returned"} /\ mw.inv[i].config.ids = "present") =>
            /\ mw.inv[i].pc = "returned"
            /\ mw.inv[i].loaded = << OwnPreferences(mw.inv[i].config) >>

====
